---- MODULE Spec2Model ----
(***************************************************************************)
(* gitops-controller: a reconciler that keeps Kubernetes objects and the   *)
(* manifests of a git repository in agreement, in the direction chosen by  *)
(* an ordered list of rules.                                               *)
(*                                                                         *)
(* Two specifications share the definitions of this module:                *)
(*   SpecRec   one reconcile step of one identity as an atomic action      *)
(*             (pkg/reconciler ReconcilerForType and everything it calls)  *)
(*   SpecRepo  the Repo object under concurrent callers: per-kind workers  *)
(*             in AddResource / RemoveResource / Push, the periodic        *)
(*             GitSync pull, and pushes to the remote by other writers,    *)
(*             interleaved at the granularity of the calls into the git    *)
(*             library.                                                    *)
(*                                                                         *)
(* The repository is always opened on an in-memory filesystem and an       *)
(* in-memory object store (NewRepo: memfs.New(), memory.NewStorage()), so  *)
(* writing a file, staging and committing have no I/O failure; the calls   *)
(* that cross the network (push, fetch) and the cluster client can fail.   *)
(***************************************************************************)
EXTENDS Naturals, Sequences, FiniteSets, TLC

VARIABLES
    config,     \* Config.Rules: the ordered rule list (immutable after load)
    cluster,    \* the object the cluster holds for the identity: <<>> or <<obj>>
    repo,       \* the Repo: worktree, index, branch, origin ref, and the remote
    last,       \* what the last step did (a reconcile step, or an external write)
    extWrites,  \* number of external writes so far
    lock,       \* Repo.lock: "" or the worker holding it
    pc,         \* position of every process of SpecRepo
    call,       \* the call each worker is in: operation, object, found, result
    calls,      \* every finished AddResource / RemoveResource call
    puller      \* the GitSync goroutine's position inside Pull

vars == <<config, cluster, repo, last, extWrites, lock, pc, call, calls, puller>>

-----------------------------------------------------------------------------
(* Bounds *)

MaxRules == 2
MaxExtWrites == 1
MaxCommits == 3
MaxCalls == 2

-----------------------------------------------------------------------------
(* Objects.  An object is its type (kind, group), its name and namespace,  *)
(* its labels and annotations, the metadata the API server populates       *)
(* (resource version, uid, self link, generation, creation timestamp) and  *)
(* its status sub-tree.  A map key or sub-tree that is not set holds None.  *)
(* The objects of SpecRec and SpecRepo differ in their labels and resource *)
(* version only; SpecUpsert varies the rest.                               *)

None == "-"

LabelKeys == {"a", "b"}

NoLabels == [k \in LabelKeys |-> None]

LastApplied == "kubectl.kubernetes.io/last-applied-configuration"

AnnotationKeys == {LastApplied, "my"}

NoAnnotations == [k \in AnnotationKeys |-> None]

IsEmptyMap(m) == \A k \in DOMAIN m : m[k] = None

\* util.Kind + util.DefaultObject: an object of a kind with a name and namespace
DefaultObject(kind, group, name, namespace) ==
    [kind |-> kind, group |-> group, ns |-> namespace, name |-> name,
     labels |-> NoLabels, annotations |-> NoAnnotations, rv |-> "", uid |-> "",
     selfLink |-> "", generation |-> 0, creationTimestamp |-> "",
     status |-> None]

Deployment == DefaultObject("Deployment", "extensions", "test", "hello")
Secret == DefaultObject("Secret", "", "test", "hello")

LabelMaps == [LabelKeys -> {None, "label"}]

\* the resource versions the API server hands out ("" is the fake client's)
ResourceVersions == {"", "1"}

\* the Deployment hello/test in every content the model distinguishes
Deployments ==
    {[Deployment EXCEPT !.labels = l, !.rv = v] :
        l \in LabelMaps, v \in ResourceVersions}

\* the mutant: the object is encoded as it is
MarshalObjectAsIs(o) == o

\* the mutant: the uid is left in the object
MarshalObjectKeepsUid(o) ==
    [o EXCEPT !.rv = "", !.creationTimestamp = "", !.selfLink = "",
              !.generation = 0]

\* util.MarshalObject: five fields of the metadata are cleared, then the whole
\* object is encoded
MarshalObject(o) ==
    [o EXCEPT !.rv = "", !.creationTimestamp = "", !.selfLink = "", !.uid = "",
              !.generation = 0]

\* the mutant: the kind is not compared
ObjectMatchesAnyKind(o, obj) ==
    /\ o.name = obj.name
    /\ o.ns = obj.ns

\* yaml.Object.Matches: name, namespace and kind decide; the group is not compared
ObjectMatches(o, obj) ==
    /\ o.name = obj.name
    /\ o.ns = obj.ns
    /\ o.kind = obj.kind

-----------------------------------------------------------------------------
(* JSON patches.  A path is the sequence of its segments.  An operation     *)
(* carries its verb and path; its value is the content of the diff's       *)
(* target at that path, which is where CreatePatch takes it from.          *)

LabelsPath == <<"metadata", "labels">>
RvPath == <<"metadata", "resourceVersion">>
ApiVersionPath == <<"apiVersion">>

Verb(old, new) ==
    IF old = None \/ old = "" THEN "add"
    ELSE IF new = None \/ new = "" THEN "remove" ELSE "replace"

\* jsonpatch.CreatePatch on one map-valued field: a map missing on one side is
\* one operation on the map itself, otherwise one operation per differing key
DiffMap(prefix, ma, mb) ==
    IF IsEmptyMap(ma) /\ IsEmptyMap(mb) THEN {}
    ELSE IF IsEmptyMap(ma) THEN {[op |-> "add", path |-> prefix]}
    ELSE IF IsEmptyMap(mb) THEN {[op |-> "remove", path |-> prefix]}
    ELSE {[op |-> Verb(ma[k], mb[k]), path |-> Append(prefix, k)] :
             k \in {x \in DOMAIN ma : ma[x] # mb[x]}}

\* the mutant: an operation for a field that does not differ
DiffScalarAlways(path, a, b) == {[op |-> Verb(a, b), path |-> path]}

\* jsonpatch.CreatePatch on one scalar field
DiffScalar(path, a, b) ==
    IF a = b THEN {} ELSE {[op |-> Verb(a, b), path |-> path]}

\* admission.PatchResponse(original, current): the operations that turn original
\* into current
PatchResponse(original, current) ==
    DiffMap(LabelsPath, original.labels, current.labels)
        \cup DiffScalar(RvPath, original.rv, current.rv)
        \cup DiffScalar(ApiVersionPath, original.group, current.group)

CommonPrefixLen(p, q) ==
    LET n == IF Len(p) < Len(q) THEN Len(p) ELSE Len(q)
        same == {i \in 0..n : \A j \in 1..i : p[j] = q[j]}
    IN  CHOOSE i \in same : \A k \in same : k <= i

\* filepath.Rel(base, targ) for two absolute paths: one ".." for every segment
\* of base below the common prefix, then the rest of targ
Rel(base, targ) ==
    LET c == CommonPrefixLen(base, targ)
    IN  [i \in 1..(Len(base) - c) |-> ".."] \o SubSeq(targ, c + 1, Len(targ))

\* strings.HasPrefix(rel, "../"): the first segment is ".." and something follows
HasDotDotSlashPrefix(rel) == Len(rel) >= 2 /\ rel[1] = ".."

\* util.PatchMatchesPath
PatchMatchesPath(patchPath, path) ==
    \/ patchPath = path
    \/ ~HasDotDotSlashPrefix(Rel(path, patchPath))


\* json-patch Apply of the operations kept, on original: the content at or under
\* an operation's path becomes the content `current` has there
ApplyMap(prefix, ops, mo, mc) ==
    IF \E o \in ops : o.path = prefix THEN mc
    ELSE [k \in DOMAIN mo |->
            IF \E o \in ops : o.path = Append(prefix, k) THEN mc[k] ELSE mo[k]]

ApplyPatch(original, ops, current) ==
    [original EXCEPT
        !.labels = ApplyMap(LabelsPath, ops, original.labels, current.labels),
        !.rv = IF \E o \in ops : o.path = RvPath THEN current.rv ELSE original.rv,
        !.group = IF \E o \in ops : o.path = ApiVersionPath
                  THEN current.group ELSE original.group]

SeqToSet(s) == {s[i] : i \in DOMAIN s}

\* the operations PatchObject keeps: all when the rule has no filter, else those
\* that match some filter
FilteredPatches(original, current, rule) ==
    {p \in PatchResponse(original, current) :
        \/ Len(rule.filters) = 0
        \/ \E f \in SeqToSet(rule.filters) : PatchMatchesPath(p.path, f)}

\* the mutant: the resource version is left as the patch made it
PatchObjectUnrestored(original, current, rule) ==
    ApplyPatch(original, FilteredPatches(original, current, rule), current)

\* config.PatchObject: apply the kept operations to original, then set the
\* resource version of the result to that of original
PatchObject(original, current, rule) ==
    [ApplyPatch(original, FilteredPatches(original, current, rule), current)
        EXCEPT !.rv = original.rv]

-----------------------------------------------------------------------------
(* Rules (pkg/config) *)

Kubernetes == "kubernetes"
Git == "git"

\* strings.ToLower on the kind names in use
ToLower(s) ==
    CASE s = "Deployment" -> "deployment"
      [] s = "Secret" -> "secret"
      [] s = "Endpoints" -> "endpoints"
      [] s = "Endpoint" -> "endpoint"
      [] OTHER -> s

\* inflection.Singular on the resource names in use
Singular(s) ==
    CASE s = "deployments" -> "deployment"
      [] s = "secrets" -> "secret"
      [] s = "endpoints" -> "endpoint"
      [] s = "Endpoints" -> "Endpoint"
      [] OTHER -> s

\* Rule.NormalizedResources
NormalizedResources(rule) ==
    [i \in DOMAIN rule.resources |-> ToLower(Singular(rule.resources[i]))]

\* util.Contains: the key is in the list, or the list is empty
Contains(list, key) ==
    \/ \E i \in DOMAIN list : list[i] = key
    \/ Len(list) = 0

\* labels.Parse on the selector strings in use; any other string is malformed
ParseSelector(s) ==
    CASE s = "a=label" -> [err |-> FALSE, key |-> "a", val |-> "label"]
      [] s = "b=label" -> [err |-> FALSE, key |-> "b", val |-> "label"]
      [] OTHER -> [err |-> TRUE, key |-> "", val |-> ""]

\* labelSelector.Matches(labels.Set(objLabels)) for an equality selector
SelectorMatches(sel, objLabels) == objLabels[sel.key] = sel.val

Present(x) == Len(x) = 1

\* the projection the label selector reads, the other way round
LabelObjectSwapped(rule, k8sState, gitState, obj) ==
    IF rule.syncTo = Kubernetes THEN k8sState
    ELSE IF rule.syncTo = Git THEN gitState
    ELSE <<obj>>

\* Rule.Matches, lines 183-187: whose labels the selector reads
LabelObject(rule, k8sState, gitState, obj) ==
    IF rule.syncTo = Kubernetes THEN gitState
    ELSE IF rule.syncTo = Git THEN k8sState
    ELSE <<obj>>

\* Rule.Matches(k8sState, gitState, typeOnly).  A projection is <<>> (nil) or
\* <<obj>>.  The answer is the pair (match, err) the code returns.
RuleMatches(rule, k8sState, gitState, typeOnly) ==
    LET obj == IF Present(k8sState) THEN k8sState[1] ELSE gitState[1]
        no == [match |-> FALSE, err |-> FALSE]
        yes == [match |-> TRUE, err |-> FALSE]
        \* lines 149-175: the diff of the two projections against the filters
        filtersOk ==
            IF Present(gitState) /\ Present(k8sState)
            THEN \/ Len(rule.filters) = 0
                 \/ \E f \in SeqToSet(rule.filters) :
                       \E p \in PatchResponse(gitState[1], k8sState[1]) :
                           PatchMatchesPath(p.path, f)
            ELSE TRUE
        labelObj == LabelObject(rule, k8sState, gitState, obj)
    IN  IF ~Contains(NormalizedResources(rule), ToLower(obj.kind)) THEN no
        ELSE IF ~Contains(rule.apiGroups, obj.group) THEN no
        ELSE IF typeOnly THEN yes
        ELSE IF ~filtersOk THEN no
        ELSE IF rule.labels = "" THEN yes
        ELSE IF ParseSelector(rule.labels).err
             THEN [match |-> FALSE, err |-> TRUE]
        ELSE IF ~Present(labelObj) THEN no
        ELSE IF ~SelectorMatches(ParseSelector(rule.labels), labelObj[1].labels)
             THEN no
        ELSE yes

\* Config.RuleForObject: the index of the rule returned (0: nil) and whether an
\* error is returned.  The loop stops at the first rule that matches or fails.
RECURSIVE RuleForObjectFrom(_, _, _, _, _)
RuleForObjectFrom(rules, i, k8sState, gitState, typeOnly) ==
    IF i > Len(rules) THEN [rule |-> 0, err |-> FALSE]
    ELSE LET m == RuleMatches(rules[i], k8sState, gitState, typeOnly)
         IN  IF m.err THEN [rule |-> 0, err |-> TRUE]
             ELSE IF m.match THEN [rule |-> i, err |-> FALSE]
             ELSE RuleForObjectFrom(rules, i + 1, k8sState, gitState, typeOnly)

RuleForObject(rules, k8sState, gitState, typeOnly) ==
    RuleForObjectFrom(rules, 1, k8sState, gitState, typeOnly)

-----------------------------------------------------------------------------
(* The repository (pkg/repo, pkg/yaml).  A tree maps every path to the     *)
(* file at that path: <<>> when there is no file, <<objects>> for a file   *)
(* holding the sequence objects (an empty file holds the empty sequence).  *)
(* A commit is its parent, its tree and the call that made it; commit i is *)
(* commits[i].  The Repo record holds the worktree (fs), the index, the    *)
(* local branch (head), the remote-tracking ref (origin) and, on the other *)
(* side of the network, the remote branch (remote).                        *)

\* filepath.Join(workDir, namespace, kind, name + ".yaml"), as its segments
PathFor(obj) == <<obj.ns, obj.kind, obj.name>>

AllPath == <<"all">>
Paths == {AllPath, PathFor(Deployment), PathFor(Secret)}

\* Repo.Walk: ReadDir order, directories entered where they stand
WalkOrder == <<AllPath, PathFor(Deployment), PathFor(Secret)>>

NoFile == <<>>

\* a manifest file holding the objects
FileOf(objects) == <<objects>>

\* File.Load: the objects decoded from a file (Walk visits no missing file)
Objects(file) == IF file = NoFile THEN <<>> ELSE file[1]

EmptyTree == [p \in Paths |-> NoFile]

TreeOf(r, c) == r.commits[c].tree

\* the paths a commit changes with respect to its parent
Changed(r, c) ==
    LET parentTree == IF r.commits[c].parent = 0 THEN EmptyTree
                      ELSE TreeOf(r, r.commits[c].parent)
    IN  {p \in Paths : TreeOf(r, c)[p] # parentTree[p]}

RECURSIVE IsAncestor(_, _, _)
\* commit a is commit b or one of its ancestors
IsAncestor(r, a, b) ==
    IF b = 0 THEN FALSE
    ELSE IF a = b THEN TRUE
    ELSE IsAncestor(r, a, r.commits[b].parent)

\* File.Load over Repo.Walk: every object of every manifest, in walk order, with
\* the file it came from and its place in the file
RECURSIVE LoadFrom(_, _)
LoadFrom(fs, n) ==
    IF n > Len(WalkOrder) THEN <<>>
    ELSE [i \in DOMAIN Objects(fs[WalkOrder[n]]) |->
            [path |-> WalkOrder[n], objects |-> Objects(fs[WalkOrder[n]]),
             i |-> i]]
         \o LoadFrom(fs, n + 1)

LoadRepoYAMLs(fs) == LoadFrom(fs, 1)

\* Repo.FindObjectInRepo: the first loaded object that matches, <<>> when none
FindObjectInRepo(fs, obj) ==
    LET First(all, hits) ==
            IF hits = {} THEN <<>>
            ELSE <<all[CHOOSE n \in hits : \A m \in hits : n <= m]>>
        Among(all) ==
            First(all, {n \in DOMAIN all :
                          ObjectMatches(all[n].objects[all[n].i], obj)})
    IN  Among(LoadRepoYAMLs(fs))

FoundObject(found) == found.objects[found.i]

\* File.AddResource: nothing when an object of the file matches, else the
\* object is appended
FileAddResource(objects, obj) ==
    IF \E i \in DOMAIN objects : ObjectMatches(objects[i], obj) THEN objects
    ELSE Append(objects, obj)

\* File.Load: every document of the file on disk is appended to the objects
\* the File already holds; a file that is not there is an error
FileLoad(objects, file) ==
    IF file = NoFile THEN [objects |-> objects, err |-> "open"]
    ELSE [objects |-> objects \o Objects(file), err |-> ""]

\* File.RemoveResource: every object of the file that matches is dropped
FileRemoveResource(objects, obj) ==
    LET Keep(o) == ~ObjectMatches(o, obj)
    IN  SelectSeq(objects, Keep)

\* the mutant: the file is written whatever it holds
DumpAlways(r, path, objects) ==
    [r EXCEPT !.fs[path] =
        FileOf([i \in DOMAIN objects |-> MarshalObject(objects[i])])]

\* File.Dump: with no object left the file is removed (nothing to do when it is
\* not there); otherwise the file is created anew and the objects are
\* marshalled into it one after the other
Dump(r, path, objects) ==
    IF Len(objects) = 0 THEN [r EXCEPT !.fs[path] = NoFile]
    ELSE [r EXCEPT !.fs[path] =
            FileOf([i \in DOMAIN objects |-> MarshalObject(objects[i])])]

\* the mutant: nothing is staged
AddNothing(r, path) == [r |-> r, err |-> ""]

\* Repo.Add (Worktree.Add): the file is staged as it stands in the worktree; a
\* file gone from the worktree is dropped from the index; a path in neither is
\* an error
Add(r, path) ==
    IF r.fs[path] # NoFile \/ r.index[path] # NoFile
    THEN [r |-> [r EXCEPT !.index[path] = r.fs[path]], err |-> ""]
    ELSE [r |-> r, err |-> "entry not found"]

\* Repo.IsClean (Worktree.Status)
IsClean(r) == r.fs = r.index /\ r.index = TreeOf(r, r.head)

\* Worktree.Commit: the index becomes a commit on top of the local branch
TreeCommit(r, by) ==
    [r EXCEPT !.commits = Append(r.commits,
                              [parent |-> r.head, tree |-> r.index, by |-> by]),
              !.head = Len(r.commits) + 1]

\* Repository.Push, lines 283-300.  net is what the network does to this call.
\* The remote refuses a branch that does not contain its own tip.
GitPush(r, net) ==
    IF r.repoDir = "" THEN [r |-> r, err |-> ""]
    ELSE IF net = "transport" THEN [r |-> r, err |-> "transport"]
    ELSE IF r.head = r.remote THEN [r |-> r, err |-> ""]
    ELSE IF IsAncestor(r, r.remote, r.head)
         THEN [r |-> [r EXCEPT !.remote = r.head, !.origin = r.head], err |-> ""]
    ELSE [r |-> r, err |-> "non-fast-forward"]

\* Repository.Fetch, lines 323-335: "uptodate" when origin already is the
\* remote tip; a transport failure leaves origin where it was
GitFetch(r, net) ==
    IF net = "transport" THEN [r |-> r, err |-> "transport"]
    ELSE IF r.origin = r.remote THEN [r |-> r, err |-> "uptodate"]
    ELSE [r |-> [r EXCEPT !.origin = r.remote], err |-> ""]

\* Worktree.Reset(HardReset) to the commit origin points at, lines 337-351
GitReset(r) ==
    [r EXCEPT !.head = r.origin,
              !.index = TreeOf(r, r.origin),
              !.fs = TreeOf(r, r.origin)]

\* Repo.Pull.  Only the already-up-to-date answer of the fetch is looked at: any
\* other answer, an error too, is followed by the reset to origin.
Pull(r, fnet) ==
    LET Fetched(f) ==
            IF f.err = "uptodate" THEN [r |-> f.r, err |-> ""]
            ELSE [r |-> GitReset(f.r), err |-> ""]
    IN  IF r.repoDir = "" THEN [r |-> r, err |-> ""]
        ELSE Fetched(GitFetch(r, fnet))

\* Repo.Push: on a non-fast-forward answer Pull, then the conflict error
Push(r, pnet, fnet) ==
    LET Pulled(q) ==
            IF q.err # "" THEN q ELSE [r |-> q.r, err |-> "non-fast-forward"]
        Pushed(p) ==
            IF p.err # "non-fast-forward" THEN p ELSE Pulled(Pull(p.r, fnet))
    IN  Pushed(GitPush(r, pnet))

\* Repo.Commit: nothing when the worktree is clean, else commit and push
Commit(r, by, pnet, fnet) ==
    IF IsClean(r) THEN [r |-> r, err |-> ""]
    ELSE Push(TreeCommit(r, by), pnet, fnet)

\* AddResource lines 210-232: the file and the objects to write.  An object
\* found is replaced where it stands in its file; otherwise a new File at the
\* synthesized path holds the object alone.
UpsertTarget(fs, obj) ==
    LET Target(found) ==
            IF found = <<>>
            THEN [path |-> PathFor(obj), objects |-> <<obj>>]
            ELSE [path |-> found[1].path,
                  objects |-> [found[1].objects EXCEPT ![found[1].i] = obj]]
    IN  Target(FindObjectInRepo(fs, obj))

\* Repo.AddResource, as one step
AddResource(r, obj, by, pnet, fnet) ==
    LET Staged(a) == IF a.err # "" THEN a ELSE Commit(a.r, by, pnet, fnet)
        Saved(t) == Staged(Add(Dump(r, t.path, t.objects), t.path))
    IN  Saved(UpsertTarget(r.fs, obj))

\* Repo.RemoveResource, as one step; found is what the caller's Find returned
RemoveResource(r, found, by, pnet, fnet) ==
    LET Staged(a) == IF a.err # "" THEN a ELSE Commit(a.r, by, pnet, fnet)
        Deleted(f) ==
            Staged(Add(Dump(r, f.path, FileRemoveResource(f.objects, FoundObject(f))),
                       f.path))
    IN  IF found = <<>> THEN [r |-> r, err |-> ""] ELSE Deleted(found[1])

-----------------------------------------------------------------------------
(* The cluster client.  net is what the API server answers; rv is the      *)
(* resource version it stamps on what it stores.  The answer "notfound" is *)
(* the one given for an object that another client has deleted since the   *)
(* Get of the step.                                                        *)

NotFound == "notfound"

\* the mutant: no error is taken for NotFound
IsNotFoundNever(err) == FALSE

\* errors.IsNotFound
IsNotFound(err) == err = NotFound

\* a Delete that was answered NotFound, as the step records it
DeleteNotFound == "cluster.Delete:notfound"

\* the mutant: a Create that answers success and stores nothing
ClientCreateNothing(obj, net, rv) == [cluster |-> <<>>, err |-> ""]

ClientCreate(obj, net, rv) ==
    IF net = "error" THEN [cluster |-> <<>>, err |-> "create"]
    ELSE [cluster |-> <<[obj EXCEPT !.rv = rv]>>, err |-> ""]

ClientUpdate(k8sState, obj, net, rv) ==
    IF net = "error" THEN [cluster |-> k8sState, err |-> "update"]
    ELSE IF net = NotFound THEN [cluster |-> <<>>, err |-> NotFound]
    ELSE [cluster |-> <<[obj EXCEPT !.rv = rv]>>, err |-> ""]

ClientDelete(k8sState, net) ==
    IF net = "error" THEN [cluster |-> k8sState, err |-> "delete"]
    ELSE IF net = NotFound THEN [cluster |-> <<>>, err |-> NotFound]
    ELSE [cluster |-> <<>>, err |-> ""]

-----------------------------------------------------------------------------
(* The reconcile step (pkg/reconciler).  Its answer is the state it leaves *)
(* and what it did: the error returned, the rule selected, whether the     *)
(* diff at line 177 was computed and what it held, the calls that write,   *)
(* and the object handed to the side written to.                           *)

Step(k8s, r, err, rule, diffed, patch, writes, written) ==
    [cluster |-> k8s, repo |-> r, err |-> err, rule |-> rule, diffed |-> diffed,
     patch |-> patch, writes |-> writes, written |-> written]

RepoWrites(r, r2, callName) ==
    {callName}
        \cup (IF Len(r2.commits) > Len(r.commits) THEN {"repo.commit"} ELSE {})

\* Reconciler.SyncObjectToGit
SyncObjectToGit(k8sState, gitState, rule, r, env, sel, diffed, patch) ==
    LET name == IF ~Present(k8sState) THEN "repo.Delete" ELSE "repo.Upsert"
        \* line 217: the trailing Push
        Pushed(p, written) ==
            Step(k8sState, p.r, p.err, sel, diffed, patch,
                 RepoWrites(r, p.r, name) \cup {"repo.push"}, written)
        \* lines 213-217
        Returned(c, written) ==
            IF c.err # ""
            THEN Step(k8sState, c.r, c.err, sel, diffed, patch,
                      RepoWrites(r, c.r, name), written)
            ELSE Pushed(Push(c.r, env.pnet2, env.fnet), written)
        \* line 210
        Added(obj) ==
            Returned(AddResource(r, obj, "reconcile", env.pnet, env.fnet), <<obj>>)
    IN  IF ~Present(k8sState)
        THEN Returned(RemoveResource(r, gitState, "reconcile", env.pnet, env.fnet),
                      <<>>)
        ELSE IF Present(gitState)
        THEN Added(PatchObject(FoundObject(gitState[1]), k8sState[1], rule))
        ELSE Added(k8sState[1])

\* Reconciler.SyncObjectToKubernetes
SyncObjectToKubernetes(k8sState, gitState, rule, r, env, sel, diffed, patch) ==
    LET Answered(a, name, written) ==
            Step(a.cluster, r, a.err, sel, diffed, patch, {name}, written)
        Updated(patched) ==
            Answered(ClientUpdate(k8sState, patched, env.cnet, env.rv),
                     "cluster.Update", <<patched>>)
        \* lines 238-241: a NotFound answer to the Delete is no error
        Deleted(d) ==
            Answered([d EXCEPT !.err = IF IsNotFound(d.err) THEN "" ELSE d.err],
                     IF d.err = NotFound THEN DeleteNotFound ELSE "cluster.Delete",
                     <<>>)
    IN  IF ~Present(gitState)
        THEN Deleted(ClientDelete(k8sState, env.cnet))
        ELSE IF ~Present(k8sState)
        THEN Answered(ClientCreate(FoundObject(gitState[1]), env.cnet, env.rv),
                      "cluster.Create", <<FoundObject(gitState[1])>>)
        ELSE Updated(PatchObject(k8sState[1], FoundObject(gitState[1]), rule))

\* the mutant: the two directions exchanged
DispatchSwapped(k8sState, gitState, rule, r, env, sel, diffed, patch) ==
    IF rule.syncTo = Git
    THEN SyncObjectToKubernetes(k8sState, gitState, rule, r, env, sel, diffed, patch)
    ELSE SyncObjectToGit(k8sState, gitState, rule, r, env, sel, diffed, patch)

\* lines 187-191: the direction of the rule decides which side is written
Dispatch(k8sState, gitState, rule, r, env, sel, diffed, patch) ==
    IF rule.syncTo = Git
    THEN SyncObjectToGit(k8sState, gitState, rule, r, env, sel, diffed, patch)
    ELSE SyncObjectToKubernetes(k8sState, gitState, rule, r, env, sel, diffed, patch)

\* the function ReconcilerForType returns, for the request of `request`'s name,
\* namespace and kind.  The call of RuleForObject at line 165 names no
\* typeOnly: every check of Rule.Matches is made.
ReconcilerForType(rules, request, k8sIn, r, env) ==
    LET \* lines 154-193
        Decide(k8sState, gitState, sel, both, patch) ==
            IF ~Present(k8sState) /\ ~Present(gitState)
            THEN Step(k8sState, r, "", 0, FALSE, {}, {}, <<>>)
            ELSE IF sel.err
            THEN Step(k8sState, r, "rule", 0, FALSE, {}, {}, <<>>)
            ELSE IF sel.rule = 0
            THEN Step(k8sState, r, "", 0, FALSE, {}, {}, <<>>)
            ELSE IF both /\ patch = {}
            THEN Step(k8sState, r, "", sel.rule, TRUE, {}, {}, <<>>)
            ELSE Dispatch(k8sState, gitState, rules[sel.rule], r, env, sel.rule,
                          both, patch)
        \* lines 159-177
        Projected(k8sState, gitState, gitStateObj, both) ==
            Decide(k8sState, gitState,
                   RuleForObject(rules, k8sState, gitStateObj, FALSE), both,
                   IF both THEN PatchResponse(k8sState[1], gitStateObj[1]) ELSE {})
        \* lines 145-162
        Found(k8sState, gitState) ==
            Projected(k8sState, gitState,
                      IF Present(gitState) THEN <<FoundObject(gitState[1])>>
                      ELSE <<>>,
                      Present(k8sState) /\ Present(gitState))
    IN  IF env.get = "error"
        THEN Step(k8sIn, r, "get", 0, FALSE, {}, {}, <<>>)
        ELSE Found(k8sIn,
                   FindObjectInRepo(r.fs, IF Present(k8sIn) THEN k8sIn[1]
                                          ELSE request))

-----------------------------------------------------------------------------
(* SpecRec: one identity (the Deployment hello/test), one rule list, the   *)
(* cluster and the repository; reconcile requests and writes by others.    *)

Rule(resources, groups, labels, filters, syncTo) ==
    [resources |-> resources, apiGroups |-> groups, labels |-> labels,
     filters |-> filters, syncTo |-> syncTo]

Rules ==
    { Rule(<<"deployments">>, <<"extensions">>, "", <<>>, Kubernetes),
      Rule(<<"deployments">>, <<"extensions">>, "", <<>>, Git),
      Rule(<<>>, <<>>, "", <<Append(LabelsPath, "a")>>, Kubernetes),
      Rule(<<>>, <<>>, "", <<Append(LabelsPath, "b")>>, Git),
      Rule(<<"Deployment">>, <<>>, "a=label", <<>>, Kubernetes),
      Rule(<<"deployment">>, <<>>, "a in (", <<>>, Git) }

RECURSIVE SeqsUpTo(_, _)
SeqsUpTo(S, n) ==
    IF n = 0 THEN {<<>>}
    ELSE LET shorter == SeqsUpTo(S, n - 1)
         IN  shorter \cup {Append(q, x) : q \in shorter, x \in S}

Configs == SeqsUpTo(Rules, MaxRules)

Manifests == {MarshalObject(d) : d \in Deployments}

NewRepo(tree, repoDir) ==
    [fs |-> tree, index |-> tree, head |-> 1, origin |-> 1, remote |-> 1,
     commits |-> <<[parent |-> 0, tree |-> tree, by |-> "init"]>>,
     repoDir |-> repoDir]

GitURL == "url"

\* the repository at start: empty, the manifest of the Deployment in a file of
\* its own, in a file it shares with another object, or another object alone
Trees ==
    {EmptyTree}
        \cup {[EmptyTree EXCEPT ![PathFor(Deployment)] = FileOf(<<m>>)] :
                 m \in Manifests}
        \cup {[EmptyTree EXCEPT ![AllPath] = FileOf(<<Deployment, Secret>>)],
              [EmptyTree EXCEPT ![PathFor(Secret)] = FileOf(<<Secret>>)]}

\* what the API server and the remote answer during one step: all calls
\* succeed (with an API server that stamps resource versions, or with the fake
\* client, which leaves them empty), the Get fails, the first write (cluster
\* call or push of the new commit) fails, the object is gone from the cluster
\* when the write arrives, the trailing push fails, or the fetch fails
Env(get, cnet, pnet, pnet2, fnet, rv) ==
    [get |-> get, cnet |-> cnet, pnet |-> pnet, pnet2 |-> pnet2, fnet |-> fnet,
     rv |-> rv]

Envs ==
    { Env("ok", "ok", "ok", "ok", "ok", "1"),
      Env("ok", "ok", "ok", "ok", "ok", ""),
      Env("error", "ok", "ok", "ok", "ok", "1"),
      Env("ok", "error", "transport", "ok", "ok", "1"),
      Env("ok", NotFound, "ok", "ok", "ok", "1"),
      Env("ok", "ok", "ok", "transport", "ok", "1"),
      Env("ok", "ok", "ok", "ok", "transport", "1") }

NoStep ==
    [kind |-> "none", err |-> "", rule |-> 0, diffed |-> FALSE, patch |-> {},
     writes |-> {}, written |-> <<>>]

Workers == {"w1", "w2"}

\* what a worker holds during one call of AddResource or RemoveResource: the
\* arguments, the file and objects it settled on under the lock, the error it is
\* about to return, and for the record the commit it made, the worktree it
\* found on taking the lock, and the commit and remote tip of a refused push
CallRec(op, obj, found) ==
    [op |-> op, obj |-> obj, found |-> found, path |-> <<>>, objects |-> <<>>,
     inner |-> FALSE, err |-> "", commit |-> 0, start |-> EmptyTree,
     rejected |-> 0, tip |-> 0]

Idle == [w \in Workers |-> "idle"]
NoCall == [w \in Workers |-> CallRec("", <<>>, <<>>)]

InitRec ==
    /\ config \in Configs
    /\ cluster \in {<<>>} \cup {<<d>> : d \in Deployments}
    /\ repo \in {NewRepo(t, GitURL) : t \in Trees}
    /\ last = NoStep
    /\ extWrites = 0
    /\ lock = None
    /\ pc = Idle
    /\ call = NoCall
    /\ calls = <<>>
    /\ puller = "idle"

\* a reconcile request for the identity is served
Reconcile ==
    /\ Len(repo.commits) < MaxCommits
    /\ \E env \in Envs :
         \E s \in {ReconcilerForType(config, Deployment, cluster, repo, env)} :
             /\ cluster' = s.cluster
             /\ repo' = s.repo
             /\ last' = [kind |-> "reconcile", err |-> s.err, rule |-> s.rule,
                         diffed |-> s.diffed, patch |-> s.patch,
                         writes |-> s.writes, written |-> s.written]
    /\ UNCHANGED <<config, extWrites, lock, pc, call, calls, puller>>

\* somebody else writes the object in the cluster
ExternalClusterWrite ==
    /\ extWrites < MaxExtWrites
    /\ \E c \in {<<>>, <<[Deployment EXCEPT !.rv = "1"]>>,
                 <<[Deployment EXCEPT !.labels["a"] = "label", !.rv = "1"]>>} :
         /\ c # cluster
         /\ cluster' = c
    /\ extWrites' = extWrites + 1
    /\ last' = [NoStep EXCEPT !.kind = "external"]
    /\ UNCHANGED <<config, repo, lock, pc, call, calls, puller>>

\* another clone pushes a commit to the remote branch
ExternalPush ==
    /\ extWrites < MaxExtWrites
    /\ Len(repo.commits) < MaxCommits
    /\ \E f \in {NoFile, FileOf(<<Deployment>>)} :
         LET t == [TreeOf(repo, repo.remote) EXCEPT ![PathFor(Deployment)] = f]
         IN  /\ t # TreeOf(repo, repo.remote)
             /\ repo' = [repo EXCEPT
                           !.commits = Append(repo.commits,
                               [parent |-> repo.remote, tree |-> t, by |-> "ext"]),
                           !.remote = Len(repo.commits) + 1]
    /\ extWrites' = extWrites + 1
    /\ last' = [NoStep EXCEPT !.kind = "external"]
    /\ UNCHANGED <<config, cluster, lock, pc, call, calls, puller>>

NextRec == Reconcile \/ ExternalClusterWrite \/ ExternalPush

SpecRec == InitRec /\ [][NextRec]_vars

-----------------------------------------------------------------------------
(* SpecUpsert: a sequence of AddResource calls on an empty repository, for *)
(* the Deployment hello/test as an API server or a user hands it over.     *)

\* the Deployment with its server-populated metadata, status and annotations in
\* every combination of set and unset
ServerObjects ==
    {[Deployment EXCEPT
        !.rv = v, !.uid = u,
        !.selfLink = IF stamped THEN "/apis/extensions/deployments/test" ELSE "",
        !.generation = IF stamped THEN 1 ELSE 0,
        !.creationTimestamp = IF stamped THEN "t" ELSE "",
        !.status = st, !.annotations = an] :
        v \in ResourceVersions, u \in {"", "u"}, stamped \in BOOLEAN,
        st \in {None, "ok"}, an \in [AnnotationKeys -> {None, "x"}]}

InitUpsert ==
    /\ config = <<>>
    /\ cluster = <<>>
    /\ repo = NewRepo(EmptyTree, GitURL)
    /\ last = NoStep
    /\ extWrites = 0
    /\ lock = None
    /\ pc = Idle
    /\ call = NoCall
    /\ calls = <<>>
    /\ puller = "idle"

\* Repo.AddResource(obj, nil) with the network up
Upsert ==
    /\ Len(repo.commits) < MaxCommits
    /\ \E obj \in ServerObjects :
         \E a \in {AddResource(repo, obj, "upsert", "ok", "ok")} :
             /\ repo' = a.r
             /\ last' = [NoStep EXCEPT !.kind = "upsert", !.err = a.err,
                                       !.written = <<obj>>]
    /\ UNCHANGED <<config, cluster, extWrites, lock, pc, call, calls, puller>>

NextUpsert == Upsert

SpecUpsert == InitUpsert /\ [][NextUpsert]_vars

-----------------------------------------------------------------------------
(* SpecMatch: Rule.Matches with typeOnly set, on one rule and one object   *)
(* that is in the cluster, in the repository, or in both.                  *)

Endpoints == DefaultObject("Endpoints", "", "test", "hello")

MatchObjects ==
    {[o EXCEPT !.labels["a"] = l] :
        o \in {Deployment, Secret, Endpoints}, l \in {None, "label"}}

MatchRules ==
    {Rule(resources, groups, labels, filters, syncTo) :
        resources \in {<<>>, <<"deployments">>, <<"Deployment">>,
                       <<"endpoints">>, <<"secrets", "endpoint">>},
        groups \in {<<>>, <<"extensions">>, <<"apps", "">>},
        labels \in {"", "a=label", "a in ("},
        filters \in {<<>>, <<<<"nonexistant">>>>},
        syncTo \in {Kubernetes, Git}}

\* the object of the only manifest of the repository, if there is one
OnlyManifest(r) ==
    IF r.fs[AllPath] = NoFile THEN <<>> ELSE <<Objects(r.fs[AllPath])[1]>>

InitMatch ==
    /\ config \in {<<rule>> : rule \in MatchRules}
    /\ \E o \in MatchObjects, k8s \in BOOLEAN, git \in BOOLEAN :
         /\ k8s \/ git
         /\ cluster = IF k8s THEN <<o>> ELSE <<>>
         /\ repo = NewRepo(IF git THEN [EmptyTree EXCEPT ![AllPath] = FileOf(<<o>>)]
                                  ELSE EmptyTree, GitURL)
    /\ last = NoStep
    /\ extWrites = 0
    /\ lock = None
    /\ pc = Idle
    /\ call = NoCall
    /\ calls = <<>>
    /\ puller = "idle"

\* rule.Matches(k8sState, gitState, true)
Match ==
    /\ last.kind = "none"
    /\ \E m \in {RuleMatches(config[1], cluster, OnlyManifest(repo), TRUE)} :
         last' = [NoStep EXCEPT !.kind = "match",
                               !.rule = IF m.match THEN 1 ELSE 0,
                               !.err = IF m.err THEN "rule" ELSE ""]
    /\ UNCHANGED <<config, cluster, repo, extWrites, lock, pc, call, calls, puller>>

NextMatch == Match

SpecMatch == InitMatch /\ [][NextMatch]_vars

-----------------------------------------------------------------------------
(* SpecFull: Rule.Matches with typeOnly unset, on one rule and the two     *)
(* projections of one identity, which may differ in their labels and of    *)
(* which one may be missing.                                               *)

FullObjects ==
    {[o EXCEPT !.labels = l] : o \in {Deployment, Secret}, l \in LabelMaps}

FullRules ==
    {Rule(resources, groups, labels, filters, syncTo) :
        resources \in {<<>>, <<"secrets">>},
        groups \in {<<>>, <<"extensions">>},
        labels \in {"", "a=label", "b=label", "a in ("},
        filters \in {<<>>, <<<<"nonexistant">>>>, <<LabelsPath>>,
                     <<Append(LabelsPath, "a")>>,
                     <<<<"nonexistant">>, Append(LabelsPath, "b")>>},
        syncTo \in {Kubernetes, Git}}

InitFull ==
    /\ config \in {<<rule>> : rule \in FullRules}
    /\ \E k \in FullObjects, g \in FullObjects, k8s \in BOOLEAN, git \in BOOLEAN :
         /\ k8s \/ git
         /\ ObjectMatches(k, g) /\ k.group = g.group
         /\ ~k8s => k = g
         /\ ~git => k = g
         /\ cluster = IF k8s THEN <<k>> ELSE <<>>
         /\ repo = NewRepo(IF git THEN [EmptyTree EXCEPT ![AllPath] = FileOf(<<g>>)]
                                  ELSE EmptyTree, GitURL)
    /\ last = NoStep
    /\ extWrites = 0
    /\ lock = None
    /\ pc = Idle
    /\ call = NoCall
    /\ calls = <<>>
    /\ puller = "idle"

\* rule.Matches(k8sState, gitState, false)
MatchFull ==
    /\ last.kind = "none"
    /\ \E m \in {RuleMatches(config[1], cluster, OnlyManifest(repo), FALSE)} :
         last' = [NoStep EXCEPT !.kind = "matchFull",
                               !.rule = IF m.match THEN 1 ELSE 0,
                               !.err = IF m.err THEN "rule" ELSE ""]
    /\ UNCHANGED <<config, cluster, repo, extWrites, lock, pc, call, calls, puller>>

NextFull == MatchFull

SpecFull == InitFull /\ [][NextFull]_vars

-----------------------------------------------------------------------------
(* SpecPath: util.PatchMatchesPath on one filter path and one operation of *)
(* a patch.  A path is the sequence of its segments.                       *)

MaxDepth == 3

Segments == {"metadata", "labels", "labels2", "a"}

PatchPaths == UNION {[1..n -> Segments] : n \in 1..MaxDepth}

InitPath ==
    /\ config \in {<<Rule(<<>>, <<>>, "", <<filter>>, Git)>> : filter \in PatchPaths}
    /\ last \in {[NoStep EXCEPT !.patch = {[op |-> "replace", path |-> q]}] :
                    q \in PatchPaths}
    /\ cluster = <<>>
    /\ repo = NewRepo(EmptyTree, GitURL)
    /\ extWrites = 0
    /\ lock = None
    /\ pc = Idle
    /\ call = NoCall
    /\ calls = <<>>
    /\ puller = "idle"

\* util.PatchMatchesPath(patch, filter)
MatchPath ==
    /\ last.kind = "none"
    /\ \E patch \in last.patch :
         last' = [last EXCEPT !.kind = "path",
                              !.rule = IF PatchMatchesPath(patch.path,
                                                           config[1].filters[1])
                                       THEN 1 ELSE 0]
    /\ UNCHANGED <<config, cluster, repo, extWrites, lock, pc, call, calls, puller>>

NextPath == MatchPath

SpecPath == InitPath /\ [][NextPath]_vars

-----------------------------------------------------------------------------
(* SpecRepo: the workers of two controllers (one for Deployments, one for  *)
(* Secrets) call AddResource and RemoveResource on the one Repo, each call *)
(* of the git library a step of its own; the ticker of Reconciler.Start    *)
(* runs GitSync beside them, and other clones push to the remote.          *)

ObjectOf(w) == IF w = "w1" THEN Deployment ELSE Secret

UpsertObjects(w) ==
    {[ObjectOf(w) EXCEPT !.rv = "1"],
     [ObjectOf(w) EXCEPT !.rv = "1", !.labels["a"] = "label"]}

RepoTrees ==
    { EmptyTree,
      [EmptyTree EXCEPT ![AllPath] = FileOf(<<Deployment, Secret>>)],
      [EmptyTree EXCEPT ![PathFor(Deployment)] = FileOf(<<Deployment>>),
                        ![PathFor(Secret)] = FileOf(<<Secret>>)] }

InitRepo ==
    /\ config = <<>>
    /\ cluster = <<>>
    /\ repo \in {NewRepo(t, GitURL) : t \in RepoTrees}
    /\ last = NoStep
    /\ extWrites = 0
    /\ lock = None
    /\ pc = Idle
    /\ call = NoCall
    /\ calls = <<>>
    /\ puller = "idle"

\* the worker is inside AddResource or RemoveResource
InCall(w) == pc[w] # "idle" /\ (pc[w] = "lock" \/ call[w].inner)

\* the worker holds the lock: lines 207-245 and 257-278
InSection(w) == InCall(w) /\ pc[w] # "lock"

\* the mutant: a lock that is granted while held
AcquireHeld(l) == TRUE

\* sync.Mutex.Lock returns when nobody holds the mutex
Acquire(l) == l = None

\* the reconciler has looked the object up (ReconcilerForType line 145) and
\* calls AddResource or RemoveResource with what it found
Find(w) ==
    /\ pc[w] = "idle"
    /\ Len(calls) + Cardinality({v \in Workers : InCall(v)}) < MaxCalls
    /\ \E op \in {"upsert", "delete"}, obj \in UpsertObjects(w) :
         LET found == FindObjectInRepo(repo.fs, obj)
         IN  /\ op = "delete" => Present(found) /\ obj = [ObjectOf(w) EXCEPT !.rv = "1"]
             /\ call' = [call EXCEPT ![w] = CallRec(op, <<obj>>, found)]
    /\ pc' = [pc EXCEPT ![w] = "lock"]
    /\ UNCHANGED <<config, cluster, repo, last, extWrites, lock, calls, puller>>

\* r.Lock(), and what the call settles on before it writes: AddResource looks
\* the object up again (line 210), RemoveResource takes the caller's found
Lock(w) ==
    /\ pc[w] = "lock"
    /\ Acquire(lock)
    /\ lock' = w
    /\ LET c == call[w]
           t == IF c.op = "upsert" THEN UpsertTarget(repo.fs, c.obj[1])
                ELSE [path |-> c.found[1].path,
                      objects |-> FileRemoveResource(c.found[1].objects,
                                                     FoundObject(c.found[1]))]
       IN  call' = [call EXCEPT ![w] = [c EXCEPT !.path = t.path,
                                                 !.objects = t.objects,
                                                 !.inner = TRUE,
                                                 !.start = repo.fs]]
    /\ pc' = [pc EXCEPT ![w] = "save"]
    /\ UNCHANGED <<config, cluster, repo, last, extWrites, calls, puller>>

\* found.Save() or found.Delete(): File.Dump
Save(w) ==
    /\ pc[w] = "save"
    /\ repo' = Dump(repo, call[w].path, call[w].objects)
    /\ pc' = [pc EXCEPT ![w] = "add"]
    /\ UNCHANGED <<config, cluster, last, extWrites, lock, call, calls, puller>>

\* r.Add(path)
AddStep(w) ==
    /\ pc[w] = "add"
    /\ LET a == Add(repo, call[w].path)
       IN  /\ repo' = a.r
           /\ call' = [call EXCEPT ![w].err = a.err]
           /\ pc' = [pc EXCEPT ![w] = IF a.err = "" THEN "commit" ELSE "unlock"]
    /\ UNCHANGED <<config, cluster, last, extWrites, lock, calls, puller>>

\* r.Commit up to its call of Push: lines 100-121
CommitStep(w) ==
    /\ pc[w] = "commit"
    /\ IF IsClean(repo)
       THEN /\ pc' = [pc EXCEPT ![w] = "unlock"]
            /\ UNCHANGED <<repo, call>>
       ELSE /\ Len(repo.commits) < MaxCommits
            /\ repo' = TreeCommit(repo, w)
            /\ call' = [call EXCEPT ![w].commit = Len(repo.commits) + 1]
            /\ pc' = [pc EXCEPT ![w] = "push"]
    /\ UNCHANGED <<config, cluster, last, extWrites, lock, calls, puller>>

\* where a worker goes when its Push returns: to the deferred Unlock when the
\* Push was Commit's, back to the controller when it was SyncObjectToGit's
AfterPush(w) == IF call[w].inner THEN "unlock" ELSE "idle"

\* Repo.Push up to its call of Pull: lines 283-303
PushStep(w) ==
    /\ pc[w] = "push"
    /\ \E pnet \in {"ok", "transport"} :
         LET p == GitPush(repo, pnet)
         IN  /\ repo' = p.r
             /\ IF p.err = "non-fast-forward"
                THEN /\ call' = [call EXCEPT ![w].rejected = repo.head,
                                             ![w].tip = repo.remote]
                     /\ pc' = [pc EXCEPT ![w] = "fetch"]
                ELSE /\ call' = [call EXCEPT ![w].err = p.err]
                     /\ pc' = [pc EXCEPT ![w] = AfterPush(w)]
    /\ UNCHANGED <<config, cluster, last, extWrites, lock, calls, puller>>

\* Repo.Pull within Push, the fetch: lines 317-335
FetchStep(w) ==
    /\ pc[w] = "fetch"
    /\ \E fnet \in {"ok", "transport"} :
         LET f == GitFetch(repo, fnet)
         IN  /\ repo' = f.r
             /\ IF f.err = "uptodate"
                THEN /\ call' = [call EXCEPT ![w].err = "non-fast-forward"]
                     /\ pc' = [pc EXCEPT ![w] = AfterPush(w)]
                ELSE /\ pc' = [pc EXCEPT ![w] = "reset"]
                     /\ UNCHANGED call
    /\ UNCHANGED <<config, cluster, last, extWrites, lock, calls, puller>>

\* Repo.Pull within Push, the reset, and Push's return: lines 337-351, 308
ResetStep(w) ==
    /\ pc[w] = "reset"
    /\ repo' = GitReset(repo)
    /\ call' = [call EXCEPT ![w].err = "non-fast-forward"]
    /\ pc' = [pc EXCEPT ![w] = AfterPush(w)]
    /\ UNCHANGED <<config, cluster, last, extWrites, lock, calls, puller>>

\* the deferred r.Unlock() and the return of AddResource or RemoveResource; on
\* success SyncObjectToGit goes on to its own Push (line 217)
Unlock(w) ==
    /\ pc[w] = "unlock"
    /\ lock' = None
    /\ calls' = Append(calls, [w |-> w, op |-> call[w].op, obj |-> call[w].obj,
                               path |-> call[w].path, err |-> call[w].err,
                               commit |-> call[w].commit,
                               start |-> call[w].start, end |-> repo.fs])
    /\ call' = [call EXCEPT ![w].inner = FALSE]
    /\ pc' = [pc EXCEPT ![w] = IF call[w].err = "" THEN "push" ELSE "idle"]
    /\ UNCHANGED <<config, cluster, repo, last, extWrites, puller>>

\* GitSync on the ticker: Pull's fetch
GFetch ==
    /\ puller = "idle"
    /\ \E fnet \in {"ok", "transport"} :
         LET f == GitFetch(repo, fnet)
         IN  /\ repo' = f.r
             /\ puller' = IF f.err = "uptodate" THEN "idle" ELSE "reset"
    /\ UNCHANGED <<config, cluster, last, extWrites, lock, pc, call, calls>>

\* GitSync on the ticker: Pull's reset
GReset ==
    /\ puller = "reset"
    /\ repo' = GitReset(repo)
    /\ puller' = "idle"
    /\ UNCHANGED <<config, cluster, last, extWrites, lock, pc, call, calls>>

NextRepo ==
    \/ \E w \in Workers :
         \/ Find(w) \/ Lock(w) \/ Save(w) \/ AddStep(w) \/ CommitStep(w)
         \/ PushStep(w) \/ FetchStep(w) \/ ResetStep(w) \/ Unlock(w)
    \/ GFetch
    \/ GReset
    \/ ExternalPush

SpecRepo == InitRepo /\ [][NextRepo]_vars

-----------------------------------------------------------------------------
(* SpecPull: one caller at a time on a Repo with a remote: AddResource     *)
(* with the network up or down, Pull with the fetch succeeding or failing, *)
(* and other clones pushing to the remote.                                 *)

PullObjects == UpsertObjects("w1") \cup UpsertObjects("w2")

Networks == {"ok", "transport"}

\* what the fetch of a Pull answered
FetchAnswer(err) ==
    IF err = "" THEN "fetch.ok"
    ELSE IF err = "uptodate" THEN "fetch.uptodate" ELSE "fetch.error"

InitPull ==
    /\ config = <<>>
    /\ cluster = <<>>
    /\ repo \in {NewRepo(t, GitURL) : t \in RepoTrees}
    /\ last = NoStep
    /\ extWrites = 0
    /\ lock = None
    /\ pc = Idle
    /\ call = NoCall
    /\ calls = <<>>
    /\ puller = "idle"

\* Repo.AddResource(obj, nil)
UpsertCall ==
    /\ Len(repo.commits) < MaxCommits
    /\ \E obj \in PullObjects, pnet \in Networks, fnet \in Networks :
         \E a \in {AddResource(repo, obj, "upsert", pnet, fnet)} :
             /\ repo' = a.r
             /\ last' = [NoStep EXCEPT !.kind = "upsert", !.err = a.err,
                                       !.written = <<obj>>]
    /\ UNCHANGED <<config, cluster, extWrites, lock, pc, call, calls, puller>>

\* Repo.Pull()
PullCall ==
    /\ \E fnet \in Networks :
         \E p \in {Pull(repo, fnet)} :
             /\ repo' = p.r
             /\ last' = [NoStep EXCEPT
                           !.kind = "pull", !.err = p.err,
                           !.writes = {FetchAnswer(GitFetch(repo, fnet).err)}]
    /\ UNCHANGED <<config, cluster, extWrites, lock, pc, call, calls, puller>>

NextPull == UpsertCall \/ PullCall \/ ExternalPush

SpecPull == InitPull /\ [][NextPull]_vars

-----------------------------------------------------------------------------
(* SpecFind: Repo.FindObjectInRepo for one queried object on a repository  *)
(* whose one file holds no, one or two objects.                            *)

FindObjects ==
    {DefaultObject(kind, group, name, namespace) :
        kind \in {"Deployment", "Secret"}, group \in {"extensions", "apps"},
        name \in {"test", "other"}, namespace \in {"hello", "default"}}

FindFiles ==
    {NoFile} \cup {FileOf(<<a>>) : a \in FindObjects}
             \cup {FileOf(<<a, b>>) : a \in FindObjects, b \in FindObjects}

InitFind ==
    /\ config = <<>>
    /\ cluster \in {<<obj>> : obj \in FindObjects}
    /\ repo \in {NewRepo([EmptyTree EXCEPT ![AllPath] = f], GitURL) : f \in FindFiles}
    /\ last = NoStep
    /\ extWrites = 0
    /\ lock = None
    /\ pc = Idle
    /\ call = NoCall
    /\ calls = <<>>
    /\ puller = "idle"

\* Repo.FindObjectInRepo(obj)
FindCall ==
    /\ last.kind = "none"
    /\ \E found \in {FindObjectInRepo(repo.fs, cluster[1])} :
         last' = [NoStep EXCEPT
                    !.kind = "find",
                    !.written = IF found = <<>> THEN <<>>
                                ELSE <<FoundObject(found[1])>>]
    /\ UNCHANGED <<config, cluster, repo, extWrites, lock, pc, call, calls, puller>>

NextFind == FindCall

SpecFind == InitFind /\ [][NextFind]_vars

-----------------------------------------------------------------------------
(* SpecSync: the controller of one kind at work on the identity hello/test.*)
(* The ticker of Start runs GitSync, which pulls and sends an event for    *)
(* every object of the repository; the watch on the kind sends an event    *)
(* for every change of the cluster object; the worker serves the queued    *)
(* request and is given it again when it returns an error.  Other clones   *)
(* push to the remote and other clients write the cluster object, up to    *)
(* MaxExtWrites times, and up to MaxFailures calls find the network down.  *)
(* pc["w1"] is the work queue of the controller ("queued": the request for *)
(* hello/test is waiting) and calls is the log of the network failures.    *)

MaxFailures == 1

SyncRules ==
    { Rule(<<"deployments">>, <<"extensions">>, "", <<>>, Kubernetes),
      Rule(<<>>, <<>>, "", <<Append(LabelsPath, "a")>>, Kubernetes),
      Rule(<<"deployments">>, <<"extensions">>, "", <<>>, Git),
      Rule(<<>>, <<>>, "", <<LabelsPath>>, Git) }

SyncClusters ==
    {<<>>, <<[Deployment EXCEPT !.rv = "1"]>>,
     <<[Deployment EXCEPT !.labels["a"] = "label", !.rv = "1"]>>}

SyncFiles ==
    {NoFile, FileOf(<<Deployment>>),
     FileOf(<<[Deployment EXCEPT !.labels["a"] = "label"]>>),
     FileOf(<<[Deployment EXCEPT !.labels["b"] = "label"]>>)}

\* the network answers of one call: all up, or one of the failures of Envs
SyncEnvs ==
    IF Len(calls) < MaxFailures THEN {env \in Envs : env.rv = "1"}
    ELSE {Env("ok", "ok", "ok", "ok", "ok", "1")}

NetworkUp(env) == env = Env("ok", "ok", "ok", "ok", "ok", "1")

Failure(op) == [w |-> "w1", op |-> op, err |-> "network"]

\* the mutant: no event is sent
SendNoEvents(objects, queue) == queue

\* GitSync, lines 304-319: an event for every loaded object of the kind and
\* group of the source; the handler queues the request of its identity
SendEvents(objects, queue) ==
    IF \E n \in DOMAIN objects :
           /\ FoundObject(objects[n]).kind = Deployment.kind
           /\ FoundObject(objects[n]).group = Deployment.group
    THEN "queued" ELSE queue

InitSync ==
    /\ config \in {<<rule>> : rule \in SyncRules}
    /\ cluster \in SyncClusters
    /\ repo \in {NewRepo([EmptyTree EXCEPT ![PathFor(Deployment)] = f], GitURL) :
                    f \in SyncFiles}
    /\ last = NoStep
    /\ extWrites = 0
    /\ lock = None
    /\ pc = [Idle EXCEPT !["w1"] = IF Present(cluster) THEN "queued" ELSE "idle"]
    /\ call = NoCall
    /\ calls = <<>>
    /\ puller = "idle"

\* Reconciler.GitSync, run by the ticker of Start
GitSync ==
    /\ \E fnet \in {env.fnet : env \in SyncEnvs} :
         \E p \in {Pull(repo, fnet)} :
             /\ repo' = p.r
             /\ pc' = [pc EXCEPT !["w1"] = SendEvents(LoadRepoYAMLs(p.r.fs), @)]
             /\ calls' = IF fnet = "ok" THEN calls
                          ELSE Append(calls, Failure("gitsync"))
    /\ last' = [NoStep EXCEPT !.kind = "gitsync"]
    /\ UNCHANGED <<config, cluster, extWrites, lock, call, puller>>

\* what serving the request leaves behind: a step that returns an error is
\* queued again, and so is the identity when the step wrote the cluster object
Served(env) ==
    LET Left(s) ==
            [cluster |-> s.cluster,
             repo |-> s.repo,
             last |-> [kind |-> "work", err |-> s.err, rule |-> s.rule,
                       diffed |-> s.diffed, patch |-> s.patch,
                       writes |-> s.writes, written |-> s.written],
             queue |-> IF s.err # "" \/ s.cluster # cluster
                       THEN "queued" ELSE "idle",
             calls |-> IF NetworkUp(env) THEN calls
                       ELSE Append(calls, Failure("reconcile"))]
    IN  Left(ReconcilerForType(config, Deployment, cluster, repo, env))

\* the worker serves the queued request
Work ==
    /\ pc["w1"] = "queued"
    /\ \E env \in SyncEnvs :
         \E t \in {Served(env)} :
             /\ cluster' = t.cluster
             /\ repo' = t.repo
             /\ last' = t.last
             /\ pc' = [pc EXCEPT !["w1"] = t.queue]
             /\ calls' = t.calls
    /\ UNCHANGED <<config, extWrites, lock, call, puller>>

\* ENABLED <<Work>>_vars: a request is queued and serving it changes something
WorkEnabled ==
    /\ pc["w1"] = "queued"
    /\ \E env \in SyncEnvs :
         \E t \in {Served(env)} :
             <<t.cluster, t.repo, t.last, t.queue, t.calls>>
                 # <<cluster, repo, last, pc["w1"], calls>>

\* another clone pushes a commit that writes or removes the manifest
RemotePush ==
    /\ extWrites < MaxExtWrites
    /\ \E f \in SyncFiles :
         \E t \in {[TreeOf(repo, repo.remote) EXCEPT ![PathFor(Deployment)] = f]} :
             /\ t # TreeOf(repo, repo.remote)
             /\ repo' = [repo EXCEPT
                           !.commits = Append(repo.commits,
                               [parent |-> repo.remote, tree |-> t, by |-> "ext"]),
                           !.remote = Len(repo.commits) + 1]
    /\ extWrites' = extWrites + 1
    /\ last' = [NoStep EXCEPT !.kind = "push"]
    /\ UNCHANGED <<config, cluster, lock, pc, call, calls, puller>>

\* another client writes the cluster object; the watch queues the request
ClusterChange ==
    /\ extWrites < MaxExtWrites
    /\ \E c \in SyncClusters :
         /\ c # cluster
         /\ cluster' = c
    /\ extWrites' = extWrites + 1
    /\ pc' = [pc EXCEPT !["w1"] = "queued"]
    /\ last' = [NoStep EXCEPT !.kind = "external"]
    /\ UNCHANGED <<config, repo, lock, call, calls, puller>>

NextSync == GitSync \/ Work \/ RemotePush \/ ClusterChange

SpecSync == InitSync /\ [][NextSync]_vars

\* WF_vars(Work), with its ENABLED written as the state predicate it is
WorkFair == []<>(~WorkEnabled) \/ []<><<Work>>_vars

\* the ticker keeps firing and the worker keeps serving its queue
SpecSyncFair == SpecSync /\ WF_vars(GitSync) /\ WorkFair

-----------------------------------------------------------------------------
(* SpecFile: one File of the yaml package, made by NewFile for a path of a *)
(* worktree, under calls of Load, AddResource and RemoveResource.          *)
(* call["w1"].objects is the Objects field of the File.                    *)

MaxObjects == 3

FileObjects ==
    {Deployment, [Deployment EXCEPT !.group = "apps"],
     [Deployment EXCEPT !.labels["a"] = "label"], Secret}

DiskFiles ==
    {NoFile} \cup {FileOf(<<a>>) : a \in FileObjects}
             \cup {FileOf(<<a, b>>) : a \in FileObjects, b \in FileObjects}

InitFile ==
    /\ config = <<>>
    /\ cluster = <<>>
    /\ repo \in {NewRepo([EmptyTree EXCEPT ![AllPath] = f], GitURL) : f \in DiskFiles}
    /\ last = NoStep
    /\ extWrites = 0
    /\ lock = None
    /\ pc = Idle
    /\ call = [NoCall EXCEPT !["w1"].path = AllPath]
    /\ calls = <<>>
    /\ puller = "idle"

\* File.Load()
LoadCall ==
    /\ \E l \in {FileLoad(call["w1"].objects, repo.fs[AllPath])} :
         /\ Len(l.objects) <= MaxObjects
         /\ call' = [call EXCEPT !["w1"].objects = l.objects]
         /\ last' = [NoStep EXCEPT !.kind = "load", !.err = l.err]
    /\ UNCHANGED <<config, cluster, repo, extWrites, lock, pc, calls, puller>>

\* File.AddResource(obj)
AddCall ==
    /\ Len(call["w1"].objects) < MaxObjects
    /\ \E obj \in FileObjects :
         /\ call' = [call EXCEPT
                       !["w1"].objects = FileAddResource(call["w1"].objects, obj)]
         /\ last' = [NoStep EXCEPT !.kind = "add", !.written = <<obj>>]
    /\ UNCHANGED <<config, cluster, repo, extWrites, lock, pc, calls, puller>>

\* File.RemoveResource(obj)
RemoveCall ==
    /\ \E obj \in FileObjects :
         /\ call' = [call EXCEPT
                       !["w1"].objects = FileRemoveResource(call["w1"].objects, obj)]
         /\ last' = [NoStep EXCEPT !.kind = "remove", !.written = <<obj>>]
    /\ UNCHANGED <<config, cluster, repo, extWrites, lock, pc, calls, puller>>

NextFile == LoadCall \/ AddCall \/ RemoveCall

SpecFile == InitFile /\ [][NextFile]_vars

-----------------------------------------------------------------------------
(* SpecCodec: a manifest is loaded into a File, the File is dumped, and    *)
(* the manifest written is loaded into a second File.  The setters of      *)
(* MarshalObject work on the object the File holds, which therefore loses  *)
(* the fields the manifest loses.  call["w1"].objects and                  *)
(* call["w2"].objects are the Objects of the two Files, last.written the   *)
(* object as the first Load returned it, pc["w1"] the place in the trip.   *)

InitCodec ==
    /\ config = <<>>
    /\ cluster = <<>>
    /\ repo \in {NewRepo([EmptyTree EXCEPT ![PathFor(Deployment)] = FileOf(<<m>>)],
                          GitURL) : m \in ServerObjects}
    /\ last = NoStep
    /\ extWrites = 0
    /\ lock = None
    /\ pc = Idle
    /\ call = NoCall
    /\ calls = <<>>
    /\ puller = "idle"

\* File.Load() on a new File
Decode ==
    /\ pc["w1"] = "idle"
    /\ \E l \in {FileLoad(<<>>, repo.fs[PathFor(Deployment)])} :
         /\ call' = [call EXCEPT !["w1"].objects = l.objects]
         /\ last' = [NoStep EXCEPT !.kind = "decode", !.err = l.err,
                                   !.written = l.objects]
    /\ pc' = [pc EXCEPT !["w1"] = "loaded"]
    /\ UNCHANGED <<config, cluster, repo, extWrites, lock, calls, puller>>

\* File.Dump()
Encode ==
    /\ pc["w1"] = "loaded"
    /\ repo' = Dump(repo, PathFor(Deployment), call["w1"].objects)
    /\ call' = [call EXCEPT !["w1"].objects =
                   [i \in DOMAIN @ |-> MarshalObject(@[i])]]
    /\ last' = [last EXCEPT !.kind = "encode"]
    /\ pc' = [pc EXCEPT !["w1"] = "dumped"]
    /\ UNCHANGED <<config, cluster, extWrites, lock, calls, puller>>

\* File.Load() on a second new File
DecodeAgain ==
    /\ pc["w1"] = "dumped"
    /\ \E l \in {FileLoad(<<>>, repo.fs[PathFor(Deployment)])} :
         /\ call' = [call EXCEPT !["w2"].objects = l.objects]
         /\ last' = [last EXCEPT !.kind = "decode", !.err = l.err]
    /\ pc' = [pc EXCEPT !["w1"] = "reloaded"]
    /\ UNCHANGED <<config, cluster, repo, extWrites, lock, calls, puller>>

NextCodec == Decode \/ Encode \/ DecodeAgain

SpecCodec == InitCodec /\ [][NextCodec]_vars

-----------------------------------------------------------------------------
(* SpecPatch: config.PatchObject on one (original, current, rule), called   *)
(* as SyncObjectToKubernetes calls it: original is the cluster object,     *)
(* current the object of the manifest, the rule the only one of the        *)
(* configuration.  last.written holds the object returned.                 *)

PatchRules ==
    {Rule(<<>>, <<>>, "", filters, Kubernetes) :
        filters \in {<<>>, <<<<"nonexistant">>>>, <<LabelsPath>>,
                     <<Append(LabelsPath, "a")>>, <<RvPath>>,
                     <<<<"nonexistant">>, Append(LabelsPath, "b")>>}}

InitPatch ==
    /\ config \in {<<rule>> : rule \in PatchRules}
    /\ cluster \in {<<d>> : d \in Deployments}
    /\ repo \in {NewRepo([EmptyTree EXCEPT ![AllPath] = FileOf(<<d>>)], GitURL) :
                    d \in Deployments}
    /\ last = NoStep
    /\ extWrites = 0
    /\ lock = None
    /\ pc = Idle
    /\ call = NoCall
    /\ calls = <<>>
    /\ puller = "idle"

\* config.PatchObject(k8sState, gitState.Object, rule)
PatchCall ==
    /\ last.kind = "none"
    /\ last' = [NoStep EXCEPT
                  !.kind = "patch",
                  !.patch = FilteredPatches(cluster[1], OnlyManifest(repo)[1],
                                            config[1]),
                  !.written = <<PatchObject(cluster[1], OnlyManifest(repo)[1],
                                            config[1])>>]
    /\ UNCHANGED <<config, cluster, repo, extWrites, lock, pc, call, calls, puller>>

NextPatch == PatchCall

SpecPatch == InitPatch /\ [][NextPatch]_vars

-----------------------------------------------------------------------------
(* SpecStore: Upsert and Delete on a workspace whose manifest files hold    *)
(* no, one or two objects each, as other clones may have pushed them: all  *)
(* objects in one file, a file named after one object holding another, an  *)
(* object with the metadata of the server left in.  One caller; the push   *)
(* of a commit succeeds or fails in transport.                             *)

StoreObjects ==
    {Deployment, [Deployment EXCEPT !.group = "apps"], Secret,
     [Secret EXCEPT !.uid = "u", !.rv = "1"]}

StoreFiles ==
    {NoFile} \cup {FileOf(<<a>>) : a \in StoreObjects}
             \cup {FileOf(<<a, b>>) : a, b \in StoreObjects}

StoreUpserts ==
    {[Deployment EXCEPT !.rv = "1", !.labels["a"] = "label"],
     [Deployment EXCEPT !.group = "apps", !.rv = "1"],
     [Secret EXCEPT !.rv = "1", !.labels["a"] = "label"]}

InitStore ==
    /\ config = <<>>
    /\ cluster = <<>>
    /\ repo \in {NewRepo([EmptyTree EXCEPT ![AllPath] = f,
                                            ![PathFor(Deployment)] = g], GitURL) :
                    f \in StoreFiles, g \in StoreFiles}
    /\ last = NoStep
    /\ extWrites = 0
    /\ lock = None
    /\ pc = Idle
    /\ call = NoCall
    /\ calls = <<>>
    /\ puller = "idle"

\* Repo.AddResource(obj, nil)
StoreUpsert ==
    /\ Len(repo.commits) < MaxCommits
    /\ \E obj \in StoreUpserts, pnet \in Networks :
         \E a \in {AddResource(repo, obj, "upsert", pnet, "ok")} :
             /\ repo' = a.r
             /\ last' = [NoStep EXCEPT !.kind = "upsert", !.err = a.err,
                                       !.written = <<obj>>]
    /\ UNCHANGED <<config, cluster, extWrites, lock, pc, call, calls, puller>>

\* Repo.RemoveResource(obj, found) with found as FindObjectInRepo just returned it
StoreDelete ==
    /\ Len(repo.commits) < MaxCommits
    /\ \E obj \in StoreUpserts, pnet \in Networks :
         \E a \in {RemoveResource(repo, FindObjectInRepo(repo.fs, obj), "delete",
                                  pnet, "ok")} :
             /\ repo' = a.r
             /\ last' = [NoStep EXCEPT !.kind = "delete", !.err = a.err,
                                       !.written = <<obj>>]
    /\ UNCHANGED <<config, cluster, extWrites, lock, pc, call, calls, puller>>

NextStore == StoreUpsert \/ StoreDelete

SpecStore == InitStore /\ [][NextStore]_vars

-----------------------------------------------------------------------------
(* SpecMutex: the Repo whose Push and Pull take the mutex themselves and   *)
(* whose LoadRepoYAMLs pulls before it walks (the repo package whose       *)
(* Commit does not push).  Two workers call FindObjectInRepo, AddResource,  *)
(* RemoveResource, Push and Pull; every r.lock.Lock() is a step of its own. *)
(* pc[w] is the place of the worker in its call, call[w].inner says that   *)
(* the Pull under way was called by LoadRepoYAMLs, calls is the log of the *)
(* calls that returned.                                                    *)

MaxMutexCalls == 2

MutexOps == {"find", "upsert", "delete", "push", "pull"}

\* Worktree.Pull: fetch, then fast-forward the branch and the worktree
TreePull(r, net) ==
    IF net = "transport" THEN [r |-> r, err |-> "transport"]
    ELSE IF r.head = r.remote
         THEN [r |-> [r EXCEPT !.origin = r.remote], err |-> ""]
    ELSE IF IsAncestor(r, r.head, r.remote)
         THEN [r |-> [r EXCEPT !.origin = r.remote, !.head = r.remote,
                               !.index = TreeOf(r, r.remote),
                               !.fs = TreeOf(r, r.remote)],
               err |-> ""]
    ELSE [r |-> [r EXCEPT !.origin = r.remote], err |-> "non-fast-forward"]

\* Repo.Commit without a push: nothing when the worktree is clean
CommitOnly(r, by) == IF IsClean(r) THEN r ELSE TreeCommit(r, by)

InitMutex ==
    /\ config = <<>>
    /\ cluster = <<>>
    /\ repo \in {NewRepo(t, dir) : t \in RepoTrees, dir \in {GitURL, ""}}
    /\ last = NoStep
    /\ extWrites = 0
    /\ lock = None
    /\ pc = Idle
    /\ call = NoCall
    /\ calls = <<>>
    /\ puller = "idle"

\* the worker is in a call
Busy(w) == pc[w] # "idle"

\* the workers inside AddResource or RemoveResource
Writers == {v \in Workers : Busy(v) /\ call[v].op \in {"upsert", "delete"}}

\* the reconciler or GitSync calls an operation of the Repo; RemoveResource is
\* called with what the worker's FindObjectInRepo returned
MutexCall(w) ==
    /\ pc[w] = "idle"
    /\ Len(calls) + Cardinality({v \in Workers : Busy(v)}) < MaxMutexCalls
    /\ \E op \in MutexOps, obj \in UpsertObjects(w) :
         /\ op = "delete" => call[w].op = "find" /\ call[w].obj = <<obj>>
         /\ op \in {"upsert", "delete"} =>
              Len(repo.commits) + Cardinality(Writers)
                  + (MaxExtWrites - extWrites) < MaxCommits
         /\ call' = [call EXCEPT ![w] =
                        CallRec(op, <<obj>>,
                                IF op = "delete" THEN call[w].found ELSE <<>>)]
    /\ pc' = [pc EXCEPT ![w] = "call"]
    /\ UNCHANGED <<config, cluster, repo, last, extWrites, lock, calls, puller>>

\* the first lines of the operation: Push and Pull return at once without a
\* remote, FindObjectInRepo goes to LoadRepoYAMLs, the others to the mutex
Enter(w) ==
    /\ pc[w] = "call"
    /\ pc' = [pc EXCEPT ![w] =
                IF call[w].op = "find" THEN "load"
                ELSE IF call[w].op \in {"push", "pull"} /\ repo.repoDir = ""
                     THEN "done"
                ELSE "lock"]
    /\ UNCHANGED <<config, cluster, repo, last, extWrites, lock, call, calls,
                   puller>>

\* r.lock.Lock(): of Pull when LoadRepoYAMLs called it, else of the operation
MutexLock(w) ==
    /\ pc[w] = "lock"
    /\ Acquire(lock)
    /\ lock' = w
    /\ pc' = [pc EXCEPT ![w] =
                IF call[w].inner \/ call[w].op = "pull" THEN "pull"
                ELSE IF call[w].op = "push" THEN "push"
                ELSE IF call[w].op = "upsert" THEN "load"
                ELSE "write"]
    /\ UNCHANGED <<config, cluster, repo, last, extWrites, call, calls, puller>>

\* what follows LoadRepoYAMLs in the operation that called it
AfterLoad(w, r, err) ==
    /\ call' = [call EXCEPT
                  ![w].inner = FALSE,
                  ![w].err = err,
                  ![w].found = IF call[w].op = "find" /\ err = ""
                               THEN FindObjectInRepo(r.fs, call[w].obj[1])
                               ELSE call[w].found]
    /\ pc' = [pc EXCEPT ![w] =
                IF call[w].op = "find" THEN "done"
                ELSE IF err = "" THEN "write" ELSE "unlock"]

\* LoadRepoYAMLs calls r.Pull(), which returns at once without a remote
LoadPull(w) ==
    /\ pc[w] = "load"
    /\ IF repo.repoDir = ""
       THEN AfterLoad(w, repo, "")
       ELSE /\ call' = [call EXCEPT ![w].inner = TRUE]
            /\ pc' = [pc EXCEPT ![w] = "lock"]
    /\ UNCHANGED <<config, cluster, repo, last, extWrites, lock, calls, puller>>

\* Pull under its lock: Worktree.Pull, the deferred Unlock, the return
PullBody(w) ==
    /\ pc[w] = "pull"
    /\ \E net \in Networks :
         \E p \in {TreePull(repo, net)} :
             /\ repo' = p.r
             /\ IF call[w].inner
                THEN AfterLoad(w, p.r, p.err)
                ELSE /\ call' = [call EXCEPT ![w].err = p.err]
                     /\ pc' = [pc EXCEPT ![w] = "done"]
    /\ lock' = None
    /\ UNCHANGED <<config, cluster, last, extWrites, calls, puller>>

\* AddResource after its lookup, RemoveResource after its lock: the file is
\* dumped, staged and committed
WriteBody(w) ==
    /\ pc[w] = "write"
    /\ LET c == call[w]
           t == IF c.op = "upsert" THEN UpsertTarget(repo.fs, c.obj[1])
                ELSE [path |-> c.found[1].path,
                      objects |-> FileRemoveResource(c.found[1].objects,
                                                     FoundObject(c.found[1]))]
       IN  IF c.op = "delete" /\ ~Present(c.found)
           THEN UNCHANGED <<repo, call>>
           ELSE \E a \in {Add(Dump(repo, t.path, t.objects), t.path)} :
                   /\ repo' = IF a.err = "" THEN CommitOnly(a.r, w) ELSE a.r
                   /\ call' = [call EXCEPT ![w].err = a.err, ![w].path = t.path]
    /\ pc' = [pc EXCEPT ![w] = "unlock"]
    /\ UNCHANGED <<config, cluster, last, extWrites, lock, calls, puller>>

\* Push under its lock: Repository.Push
PushBody(w) ==
    /\ pc[w] = "push"
    /\ \E net \in Networks :
         \E p \in {GitPush(repo, net)} :
             /\ repo' = p.r
             /\ call' = [call EXCEPT ![w].err = p.err]
    /\ pc' = [pc EXCEPT ![w] = "unlock"]
    /\ UNCHANGED <<config, cluster, last, extWrites, lock, calls, puller>>

\* the deferred Unlock of the operation, if it took the mutex, and its return
Return(w) ==
    /\ pc[w] \in {"unlock", "done"}
    /\ lock' = IF pc[w] = "unlock" THEN None ELSE lock
    /\ calls' = Append(calls, [w |-> w, op |-> call[w].op, err |-> call[w].err])
    /\ pc' = [pc EXCEPT ![w] = "idle"]
    /\ UNCHANGED <<config, cluster, repo, last, extWrites, call, puller>>

\* a step inside a call
MutexStep(w) ==
    \/ Enter(w) \/ MutexLock(w) \/ LoadPull(w) \/ PullBody(w)
    \/ WriteBody(w) \/ PushBody(w) \/ Return(w)

NextMutex ==
    \/ \E w \in Workers : MutexCall(w) \/ MutexStep(w)
    \/ ExternalPush

SpecMutex == InitMutex /\ [][NextMutex]_vars

\* every call that can take a step takes one: the goroutines of the workers
\* and of the ticker are scheduled, and a network call returns
SpecMutexFair == SpecMutex /\ \A w \in Workers : WF_vars(MutexStep(w))

-----------------------------------------------------------------------------
(* SpecDispatch: the reconcile step under one rule that matches every      *)
(* object and whose syncTo is as the configuration file gives it: one of   *)
(* the two directions, missing, or another string.                         *)

SyncTypes == {Kubernetes, Git, "", "both"}

DispatchRules == {Rule(<<>>, <<>>, "", <<>>, syncTo) : syncTo \in SyncTypes}

InitDispatch ==
    /\ config \in {<<rule>> : rule \in DispatchRules}
    /\ cluster \in {<<>>} \cup {<<d>> : d \in Deployments}
    /\ repo \in {NewRepo(t, GitURL) : t \in Trees}
    /\ last = NoStep
    /\ extWrites = 0
    /\ lock = None
    /\ pc = Idle
    /\ call = NoCall
    /\ calls = <<>>
    /\ puller = "idle"

NextDispatch == Reconcile

SpecDispatch == InitDispatch /\ [][NextDispatch]_vars

-----------------------------------------------------------------------------
(* Properties of the reconcile step.                                       *)

\* the step just taken is a reconcile step that went as far as selecting a rule
Selected == last'.kind = "reconcile" /\ last'.rule # 0

RepoWriteNames == {"repo.Upsert", "repo.Delete", "repo.commit", "repo.push"}
ClusterWriteNames ==
    {"cluster.Create", "cluster.Update", "cluster.Delete", DeleteNotFound}

\* C1 Directionality: a reconcile step whose selected rule syncs to kubernetes
\* makes no Upsert, Delete, commit or push and leaves the repository as it was;
\* a step whose selected rule syncs to git makes no Create, Update or Delete and
\* leaves the cluster as it was.
Directionality ==
    [][Selected =>
         /\ config[last'.rule].syncTo = Kubernetes =>
              /\ last'.writes \cap RepoWriteNames = {}
              /\ repo' = repo
         /\ config[last'.rule].syncTo = Git =>
              /\ last'.writes \cap ClusterWriteNames = {}
              /\ cluster' = cluster]_vars

\* a to-kubernetes step has updated the cluster object from the manifest
DirectionalityWitness ==
    /\ last.kind = "reconcile"
    /\ last.rule # 0
    /\ config[last.rule].syncTo = Kubernetes
    /\ last.writes = {"cluster.Update"}
    /\ last.err = ""
    /\ Present(cluster)
    /\ cluster[1].labels = Objects(repo.fs[PathFor(Deployment)])[1].labels

\* the fields of an object, by the path of each
FieldPaths == {Append(LabelsPath, k) : k \in LabelKeys} \cup {RvPath, ApiVersionPath}

Field(o, p) ==
    IF p = RvPath THEN o.rv
    ELSE IF p = ApiVersionPath THEN o.group
    ELSE o.labels[p[3]]

\* path p is path f or lies under it
IsUnder(p, f) == Len(f) <= Len(p) /\ SubSeq(p, 1, Len(f)) = f

\* the projection of the repository for the identity
GitProjection(r) ==
    LET found == FindObjectInRepo(r.fs, Deployment)
    IN  IF Present(found) THEN <<FoundObject(found[1])>> ELSE <<>>

\* C2 Filter containment: when the selected rule has filters and both
\* projections are present, the object written to the target differs from what
\* the target held only at paths equal to or under a filter, and the source side
\* is unchanged.
FilterContainment ==
    [][(/\ Selected
        /\ Len(config[last'.rule].filters) > 0
        /\ Present(cluster) /\ Present(GitProjection(repo))
        /\ Present(last'.written)) =>
         LET rule == config[last'.rule]
             target == IF rule.syncTo = Git THEN GitProjection(repo)[1]
                       ELSE cluster[1]
         IN  /\ \A p \in FieldPaths :
                  Field(last'.written[1], p) # Field(target, p) =>
                      \E f \in SeqToSet(rule.filters) : IsUnder(p, f)
             /\ rule.syncTo = Git => cluster' = cluster
             /\ rule.syncTo = Kubernetes => repo' = repo]_vars

\* C3 Convergence: a reconcile step that directly follows a reconcile step that
\* returned success finds an empty diff and writes nothing.
Convergence ==
    [][(last.kind = "reconcile" /\ last.err = "" /\ last'.kind = "reconcile") =>
         /\ last'.patch = {}
         /\ last'.writes = {}
         /\ cluster' = cluster
         /\ repo' = repo]_vars

\* rule i of the list fully matches the two projections
FullMatch(rules, i, k8sState, gitState) ==
    RuleMatches(rules[i], k8sState, gitState, FALSE).match

\* C4 Rule ordering: a reconcile step that reads both sides and finds the object
\* on one of them selects the first rule of the list that fully matches: no
\* later rule when an earlier one matches, and a rule that does not match never
\* keeps a later matching rule from being selected.
RuleOrdering ==
    [][(/\ last'.kind = "reconcile"
        /\ last'.err # "get"
        /\ Present(cluster) \/ Present(GitProjection(repo))) =>
         LET git == GitProjection(repo)
             first(i) == /\ FullMatch(config, i, cluster, git)
                         /\ \A j \in 1..(i - 1) : ~FullMatch(config, j, cluster, git)
         IN  /\ last'.rule # 0 => first(last'.rule)
             /\ \A i \in DOMAIN config : first(i) => last'.rule = i]_vars

\* the step just taken is a reconcile step
Reconciled == last'.kind = "reconcile"

\* the tree of the remote branch
RemoteTree(r) == TreeOf(r, r.remote)

\* C11 Unchanged on error: a reconcile step that returns an error leaves the
\* cluster object as it was (unless another client deleted it meanwhile, which
\* is what the error then reports), and leaves the worktree, the local branch
\* and the remote branch of the repository as they were; a step whose Get
\* failed has made no call that writes.
UnchangedOnError ==
    [][(Reconciled /\ last'.err # "") =>
         /\ cluster' = cluster \/ (cluster' = <<>> /\ IsNotFound(last'.err))
         /\ repo'.fs = repo.fs
         /\ repo'.head = repo.head
         /\ RemoteTree(repo') = RemoteTree(repo)
         /\ last'.err = "get" => last'.writes = {}]_vars

\* the five metadata fields of a manifest object are empty
ServerFieldsCleared(o) ==
    /\ o.rv = "" /\ o.uid = "" /\ o.selfLink = ""
    /\ o.generation = 0 /\ o.creationTimestamp = ""

\* the manifest object keeps what the object handed over had besides
Preserved(o, obj) ==
    /\ o.name = obj.name /\ o.ns = obj.ns /\ o.kind = obj.kind
    /\ o.annotations["my"] = obj.annotations["my"]

\* C12 Metadata hygiene: every object of every manifest written by a sequence
\* of Upserts has empty resource version, uid, self link, generation and
\* creation timestamp, no status and no last-applied-configuration annotation;
\* the manifest written last keeps the name, namespace, kind and the other
\* annotations of the object handed over.
MetadataHygiene ==
    /\ \A p \in Paths : \A i \in DOMAIN Objects(repo.fs[p]) :
         /\ ServerFieldsCleared(Objects(repo.fs[p])[i])
         /\ Objects(repo.fs[p])[i].status = None
         /\ Objects(repo.fs[p])[i].annotations[LastApplied] = None
    /\ last.kind = "upsert" =>
         \E i \in DOMAIN Objects(repo.fs[PathFor(last.written[1])]) :
             Preserved(Objects(repo.fs[PathFor(last.written[1])])[i],
                       last.written[1])

\* the part of C12 the code keeps
MetadataCleared ==
    /\ \A p \in Paths : \A i \in DOMAIN Objects(repo.fs[p]) :
         ServerFieldsCleared(Objects(repo.fs[p])[i])
    /\ last.kind = "upsert" =>
         \E i \in DOMAIN Objects(repo.fs[PathFor(last.written[1])]) :
             Preserved(Objects(repo.fs[PathFor(last.written[1])])[i],
                       last.written[1])

\* the selected rule of the step just taken syncs to the repository
ToRepository == Selected /\ config[last'.rule].syncTo = Git

\* the selected rule of the step just taken syncs to the cluster
ToCluster == Selected /\ config[last'.rule].syncTo = Kubernetes

\* the object without the five fields the API server populates
WithoutServerFields(o) ==
    [o EXCEPT !.rv = "", !.uid = "", !.selfLink = "", !.generation = 0,
              !.creationTimestamp = ""]

\* C13 To-repository create: a successful step under a to-repository rule that
\* finds the object in the cluster and not in the repository leaves the file
\* <namespace>/<Kind>/<name>.yaml holding exactly the whole cluster object
\* without its server-populated fields, and leaves the cluster as it was.
ToRepositoryCreate ==
    [][(/\ ToRepository
        /\ Present(cluster) /\ ~Present(GitProjection(repo))
        /\ last'.err = "") =>
         /\ repo'.fs[<<cluster[1].ns, cluster[1].kind, cluster[1].name>>]
                = FileOf(<<WithoutServerFields(cluster[1])>>)
         /\ cluster' = cluster]_vars

\* a step under a to-repository rule with a filter has created the manifest of a
\* labelled cluster object, whole
ToRepositoryCreateWitness ==
    /\ last.kind = "reconcile" /\ last.err = "" /\ last.rule # 0
    /\ config[last.rule].syncTo = Git
    /\ Len(config[last.rule].filters) > 0
    /\ ~last.diffed
    /\ {"repo.Upsert", "repo.commit"} \subseteq last.writes
    /\ Present(cluster)
    /\ cluster[1].rv = "1"
    /\ cluster[1].labels["a"] = "label"
    /\ repo.fs[PathFor(Deployment)] = FileOf(<<WithoutServerFields(cluster[1])>>)
    /\ RemoteTree(repo) = repo.fs

\* the object has the identity of the request
IsRequested(o) == o.kind = "Deployment" /\ o.ns = "hello" /\ o.name = "test"

\* the objects of a file that have another identity, in their order
Others(file) ==
    LET Other(o) == ~IsRequested(o)
    IN  SelectSeq(Objects(file), Other)

\* C14 To-repository delete: a successful step under a to-repository rule that
\* finds the object in the repository and not in the cluster removes the object
\* from a manifest file that held it: the file is gone when nothing is left in
\* it, and otherwise holds the other objects in their order; every other file
\* and the cluster are as they were.
ToRepositoryDelete ==
    [][(/\ ToRepository
        /\ ~Present(cluster) /\ Present(GitProjection(repo))
        /\ last'.err = "") =>
         /\ \E p \in Paths :
              /\ Others(repo.fs[p]) # Objects(repo.fs[p])
              /\ repo'.fs[p] = IF Others(repo.fs[p]) = <<>> THEN NoFile
                               ELSE FileOf(Others(repo.fs[p]))
              /\ \A q \in Paths \ {p} : repo'.fs[q] = repo.fs[q]
         /\ cluster' = cluster]_vars

\* a to-repository step has removed the object from the file it shared with
\* another object, and the commit has reached the remote
ToRepositoryDeleteWitness ==
    /\ last.kind = "reconcile" /\ last.err = "" /\ last.rule # 0
    /\ config[last.rule].syncTo = Git
    /\ {"repo.Delete", "repo.commit"} \subseteq last.writes
    /\ cluster = <<>>
    /\ repo.fs = [EmptyTree EXCEPT ![AllPath] = FileOf(<<Secret>>)]
    /\ RemoteTree(repo) = repo.fs

\* C15 To-cluster create: a successful step under a to-cluster rule that finds
\* the object in the repository and not in the cluster leaves the cluster
\* holding the object of the manifest, and leaves the worktree, the index, the
\* branches and the commit history of the repository as they were.
ToClusterCreate ==
    [][(/\ ToCluster
        /\ ~Present(cluster) /\ Present(GitProjection(repo))
        /\ last'.err = "") =>
         /\ Present(cluster')
         /\ WithoutServerFields(cluster'[1])
                = WithoutServerFields(GitProjection(repo)[1])
         /\ repo' = repo]_vars

\* a to-cluster step has created the labelled object of the manifest in the
\* cluster
ToClusterCreateWitness ==
    /\ last.kind = "reconcile" /\ last.err = "" /\ last.rule # 0
    /\ config[last.rule].syncTo = Kubernetes
    /\ last.writes = {"cluster.Create"}
    /\ Present(cluster)
    /\ cluster[1].labels["a"] = "label"
    /\ cluster[1].rv = "1"
    /\ FileOf(<<WithoutServerFields(cluster[1])>>) = repo.fs[PathFor(Deployment)]
    /\ Len(repo.commits) = 1

\* C16 To-cluster delete: a step under a to-cluster rule that finds the object
\* in the cluster and not in the repository calls Delete and nothing else; when
\* it returns success the cluster holds the object no more, and it returns
\* success when the Delete is answered NotFound; any other error of the Delete
\* is the error returned.  The repository is as it was.
ToClusterDelete ==
    [][(/\ ToCluster
        /\ Present(cluster) /\ ~Present(GitProjection(repo))) =>
         /\ last'.writes \in {{"cluster.Delete"}, {DeleteNotFound}}
         /\ last'.writes = {DeleteNotFound} => last'.err = ""
         /\ last'.err \in {"", "delete"}
         /\ last'.err = "" => cluster' = <<>>
         /\ last'.err = "delete" => cluster' = cluster
         /\ repo' = repo]_vars

\* a to-cluster step whose Delete was answered NotFound has returned success
ToClusterDeleteWitness ==
    /\ last.kind = "reconcile" /\ last.err = "" /\ last.rule # 0
    /\ config[last.rule].syncTo = Kubernetes
    /\ last.writes = {DeleteNotFound}
    /\ cluster = <<>>
    /\ ~Present(GitProjection(repo))

\* no manifest of the worktree holds an object of the identity of the request
AbsentFromRepository(r) ==
    \A p \in Paths : Others(r.fs[p]) = Objects(r.fs[p])

\* C17 Absent on both sides: a step whose Get answers NotFound and that finds
\* no object of the identity in the repository returns success, selects no
\* rule, makes no call that writes and leaves the cluster and the repository as
\* they were, whatever the rule list.
AbsentOnBothSides ==
    [][(/\ Reconciled /\ last'.err # "get"
        /\ ~Present(cluster) /\ AbsentFromRepository(repo)) =>
         /\ last'.err = ""
         /\ last'.rule = 0
         /\ last'.writes = {}
         /\ cluster' = cluster
         /\ repo' = repo]_vars

\* a step has returned for an identity absent on both sides, under a rule list
\* whose first rule names no resource and no group, beside a manifest of
\* another object
AbsentOnBothSidesWitness ==
    /\ last.kind = "reconcile" /\ last.err = "" /\ last.rule = 0
    /\ last.writes = {}
    /\ cluster = <<>>
    /\ AbsentFromRepository(repo)
    /\ repo.fs[PathFor(Secret)] = FileOf(<<Secret>>)
    /\ Len(config) > 0
    /\ config[1].resources = <<>> /\ config[1].apiGroups = <<>>

\* the object is on one side at least and no rule of the list fully matches
NoRuleMatches ==
    /\ Present(cluster) \/ Present(GitProjection(repo))
    /\ \A i \in DOMAIN config :
         ~FullMatch(config, i, cluster, GitProjection(repo))

\* what the step just taken did when it did nothing and returned success
ReturnedUntouched ==
    /\ last'.err = ""
    /\ last'.writes = {}
    /\ cluster' = cluster
    /\ repo' = repo

\* C18 No matching rule: a step that reads both sides and finds no rule of the
\* list matching returns success and leaves the cluster object and the
\* repository as they were, whether the two projections differ or not.
NoMatchNoSync ==
    [][(Reconciled /\ last'.err # "get" /\ NoRuleMatches) =>
         ReturnedUntouched]_vars

\* every label selector of the rule list parses
SelectorsParse ==
    \A i \in DOMAIN config :
        config[i].labels # "" => ~ParseSelector(config[i].labels).err

\* C18 for the rule lists whose selectors parse
NoMatchNoSyncParsable ==
    [][(Reconciled /\ last'.err # "get" /\ NoRuleMatches /\ SelectorsParse) =>
         ReturnedUntouched]_vars

\* C19 Empty patch: a step that finds the object on both sides with the same
\* content creates no commit, attempts no push, issues no cluster write and
\* leaves both sides as they were, whatever the direction of the rules.
EmptyPatchNoOp ==
    [][(/\ Reconciled
        /\ Present(cluster) /\ Present(GitProjection(repo))
        /\ cluster[1] = GitProjection(repo)[1]) =>
         /\ last'.writes = {}
         /\ cluster' = cluster
         /\ repo' = repo]_vars

\* a step under a to-repository rule has found an empty diff between a labelled
\* cluster object and its manifest, and returned
EmptyPatchNoOpWitness ==
    /\ last.kind = "reconcile" /\ last.err = "" /\ last.rule # 0
    /\ config[last.rule].syncTo = Git
    /\ last.diffed /\ last.patch = {}
    /\ last.writes = {}
    /\ Present(cluster) /\ Present(GitProjection(repo))
    /\ cluster[1] = GitProjection(repo)[1]
    /\ cluster[1].labels["a"] = "label"

\* the operations of the diff between the two projections the step read
StepDiff == PatchResponse(GitProjection(repo)[1], cluster[1])

\* the rule has filters, and no operation of the diff lies at or under one
FiltersCoverNothing(rule) ==
    /\ Len(rule.filters) > 0
    /\ \A i \in DOMAIN rule.filters :
         \A op \in StepDiff : ~IsUnder(op.path, rule.filters[i])

\* the rule has filters, and PatchMatchesPath accepts no operation of the diff
\* for any of them
FiltersAcceptNothing(rule) ==
    /\ Len(rule.filters) > 0
    /\ \A i \in DOMAIN rule.filters :
         \A op \in StepDiff : ~PatchMatchesPath(op.path, rule.filters[i])

\* the step just taken read two projections that differ
ReadDiffering ==
    /\ Reconciled /\ last'.err # "get"
    /\ Present(cluster) /\ Present(GitProjection(repo))
    /\ StepDiff # {}

\* C34 Nothing under the filters: a reconcile step that finds both projections
\* present and different, under a rule list none of whose rules has a filter
\* with an operation of the diff at or under it, writes nothing: no cluster
\* Create, Update or Delete, no commit, and both sides as they were.
FilteredOutNoWrite ==
    [][(/\ ReadDiffering
        /\ Len(config) > 0
        /\ \A i \in DOMAIN config : FiltersCoverNothing(config[i])) =>
         /\ last'.writes = {}
         /\ cluster' = cluster
         /\ repo' = repo]_vars

\* C34 with "falls under" read as PatchMatchesPath reads it
FilteredOutNoWriteAsCoded ==
    [][(/\ ReadDiffering
        /\ Len(config) > 0
        /\ \A i \in DOMAIN config : FiltersAcceptNothing(config[i])) =>
         /\ last'.rule = 0
         /\ last'.writes = {}
         /\ cluster' = cluster
         /\ repo' = repo]_vars

\* the step just taken wrote the cluster, or the repository
WroteCluster == last'.writes \cap ClusterWriteNames # {} \/ cluster' # cluster
WroteRepository == last'.writes \cap RepoWriteNames # {} \/ repo' # repo

\* C40 Direction dispatch is exact: a reconcile step writes the cluster only
\* when the syncTo of the selected rule is exactly kubernetes and the
\* repository only when it is exactly git; under a rule whose syncTo is missing
\* or any other string it writes neither.
DispatchExact ==
    [][Selected =>
         /\ WroteCluster => config[last'.rule].syncTo = Kubernetes
         /\ WroteRepository => config[last'.rule].syncTo = Git]_vars

\* C40 for the rules whose syncTo is one of the two directions
DispatchExactKnown ==
    [][(Selected /\ config[last'.rule].syncTo \in {Kubernetes, Git}) =>
         /\ WroteCluster => config[last'.rule].syncTo = Kubernetes
         /\ WroteRepository => config[last'.rule].syncTo = Git]_vars

-----------------------------------------------------------------------------
(* Properties of rule matching.                                            *)

\* a name lowercased and singularized
Normalized(name) == ToLower(Singular(name))

\* the object the rule is matched against
Matched == IF Present(cluster) THEN cluster[1] ELSE OnlyManifest(repo)[1]

\* the list is empty or one of its entries, lowercased and singularized, is the
\* kind of the object, lowercased and singularized
KindListed(rule, obj) ==
    \/ Len(rule.resources) = 0
    \/ \E i \in DOMAIN rule.resources :
          Normalized(rule.resources[i]) = Normalized(obj.kind)

\* the list is empty or holds the group of the object
GroupListed(rule, obj) ==
    \/ Len(rule.apiGroups) = 0
    \/ \E i \in DOMAIN rule.apiGroups : rule.apiGroups[i] = obj.group

\* C20 Identity-only matching: Rule.Matches with typeOnly set returns no error
\* and returns true exactly when the rule lists the kind of the object, after
\* lowercasing and singularizing, and lists its group; the filters, the labels
\* and the direction of the rule and the side the object is missing on have no
\* part in the answer.
IdentityOnlyMatching ==
    last.kind = "match" =>
        /\ last.err = ""
        /\ last.rule = 1 <=>
              (KindListed(config[1], Matched) /\ GroupListed(config[1], Matched))

\* C20 for the objects whose kind is a singular word
IdentityOnlyMatchingSingular ==
    (last.kind = "match" /\ Singular(Matched.kind) = Matched.kind) =>
        /\ last.err = ""
        /\ last.rule = 1 <=>
              (KindListed(config[1], Matched) /\ GroupListed(config[1], Matched))

\* the first rule of the list that fully matches, a rule whose selector does
\* not parse counting as one that does not match (0: none)
FirstFullMatch ==
    LET hits == {i \in DOMAIN config :
                    FullMatch(config, i, cluster, GitProjection(repo))}
    IN  IF hits = {} THEN 0 ELSE CHOOSE i \in hits : \A j \in hits : i <= j

\* C24 Rule error policy: a reconcile step that reads both sides of an object
\* under a rule list with a label selector that does not parse does not fail
\* on that rule: the rule counts as not matching, and the first rule of the
\* list that matches, a later one included, is selected.
RuleErrorPolicy ==
    [][(/\ Reconciled /\ last'.err # "get"
        /\ Present(cluster) \/ Present(GitProjection(repo))
        /\ ~SelectorsParse) =>
         /\ last'.err # "rule"
         /\ last'.rule = FirstFullMatch]_vars

-----------------------------------------------------------------------------
(* Properties of full matching.                                            *)

\* the two projections Rule.Matches was given
K8sState == cluster
GitState == OnlyManifest(repo)

\* the operations of the diff of the two projections
DiffPatch == PatchResponse(GitState[1], K8sState[1])

\* some filter of the rule is the path of an operation of the diff or a prefix
\* of it
SomeFilterCovers(rule) ==
    \E i \in DOMAIN rule.filters :
        \E op \in DiffPatch : IsUnder(op.path, rule.filters[i])

\* what the rule answers once its filters are taken away
WithoutFilters(rule) ==
    RuleMatches([rule EXCEPT !.filters = <<>>], K8sState, GitState, FALSE)

\* C21 Filter check of full matching: when both projections exist and the
\* filter list of the rule is not empty, the rule matches only if some filter
\* path is equal to or a prefix of the path of some operation of the diff
\* patch; when a projection is absent the rule answers what it answers without
\* its filters.
FilterCheck ==
    last.kind = "matchFull" =>
        IF Present(K8sState) /\ Present(GitState)
        THEN (Len(config[1].filters) > 0 /\ last.rule = 1)
                => SomeFilterCovers(config[1])
        ELSE /\ (last.rule = 1) = WithoutFilters(config[1]).match
             /\ (last.err = "rule") = WithoutFilters(config[1]).err

\* C21 with "a prefix of" read as PatchMatchesPath reads it
FilterCheckAsCoded ==
    last.kind = "matchFull" =>
        IF Present(K8sState) /\ Present(GitState)
        THEN (Len(config[1].filters) > 0 /\ last.rule = 1)
                => \E i \in DOMAIN config[1].filters :
                      \E op \in DiffPatch :
                          PatchMatchesPath(op.path, config[1].filters[i])
        ELSE /\ (last.rule = 1) = WithoutFilters(config[1]).match
             /\ (last.err = "rule") = WithoutFilters(config[1]).err

\* what the rule answers once its label selector is taken away
WithoutLabels(rule) ==
    RuleMatches([rule EXCEPT !.labels = ""], K8sState, GitState, FALSE)

\* the projection on the side the rule reads from
Consulted(rule) == IF rule.syncTo = Kubernetes THEN GitState ELSE K8sState

\* the projection on the side the rule writes to
NotConsulted(rule) == IF rule.syncTo = Kubernetes THEN K8sState ELSE GitState

\* the object carries the label the selector asks for
Selects(selector, obj) ==
    obj.labels[ParseSelector(selector).key] = ParseSelector(selector).val

HasSelector(rule) == rule.labels # "" /\ ~ParseSelector(rule.labels).err

\* C22 Label check of full matching: a rule with a label selector matches
\* exactly when it matches without the selector, the projection it reads from
\* (the repository's for a to-cluster rule, the cluster's for a to-repository
\* rule) exists and that projection carries the label selected; the labels of
\* the other projection have no part in the check.
LabelCheck ==
    (last.kind = "matchFull" /\ HasSelector(config[1])) =>
        /\ last.err = ""
        /\ (last.rule = 1) =
              /\ WithoutLabels(config[1]).match
              /\ Present(Consulted(config[1]))
              /\ Selects(config[1].labels, Consulted(config[1])[1])

\* a rule with a selector matched two projections of which only the one it
\* reads from carries the label
LabelCheckWitness ==
    /\ last.kind = "matchFull" /\ HasSelector(config[1])
    /\ last.rule = 1
    /\ Present(K8sState) /\ Present(GitState)
    /\ Selects(config[1].labels, Consulted(config[1])[1])
    /\ ~Selects(config[1].labels, NotConsulted(config[1])[1])

-----------------------------------------------------------------------------
(* Properties of PatchMatchesPath.                                         *)

\* the filter path P and the operation path Q of the call
FilterPath == config[1].filters[1]
OperationPath == (CHOOSE patch \in last.patch : TRUE).path

\* C23 Path-prefix semantics: PatchMatchesPath(Q, P) is true exactly when Q
\* equals P or lies under P in the path tree; it is false when Q is the parent
\* or another ancestor of P, a sibling of P, or on another branch.
PathPrefixSemantics ==
    last.kind = "path" =>
        (last.rule = 1) = IsUnder(OperationPath, FilterPath)

\* C23 for the operation paths other than the parent of the filter path
PathPrefixSemanticsButParent ==
    (last.kind = "path" /\ OperationPath # SubSeq(FilterPath, 1, Len(FilterPath) - 1)) =>
        (last.rule = 1) = IsUnder(OperationPath, FilterPath)

-----------------------------------------------------------------------------
(* Properties of Pull.                                                     *)

\* the local branch and the worktree are at the tip of the remote branch
AtRemoteTip ==
    /\ repo.head = repo.remote
    /\ repo.fs = RemoteTree(repo)

\* the local branch holds a commit that was never pushed
HoldsUnpushed == ~IsAncestor(repo, repo.head, repo.remote)

\* C25 Pull postcondition: when Pull returns success after a fetch that did
\* not fail, the local branch and the worktree equal the tip of the remote
\* branch, also when the fetch answered already-up-to-date while the local
\* branch holds a commit that was never pushed.
PullPostcondition ==
    (last.kind = "pull" /\ last.err = "" /\ "fetch.error" \notin last.writes) =>
        AtRemoteTip

\* C25 for the fetches that brought something
PullPostconditionFetched ==
    (last.kind = "pull" /\ last.err = "" /\ "fetch.ok" \in last.writes) =>
        AtRemoteTip

\* C26 Transport errors are surfaced: a Pull whose fetch failed with an error
\* other than already-up-to-date returns an error and does not report
\* success.
FetchErrorSurfaced ==
    (last.kind = "pull" /\ "fetch.error" \in last.writes) => last.err # ""

-----------------------------------------------------------------------------
(* Properties of FindObjectInRepo.                                         *)

\* the objects of the repository
RepoObjects == SeqToSet(Objects(repo.fs[AllPath]))

\* kind, group, namespace and name are equal
SameIdentity(a, b) ==
    a.kind = b.kind /\ a.group = b.group /\ a.ns = b.ns /\ a.name = b.name

\* C27 Identity matching between repository and cluster: Find returns an
\* object of the repository exactly when the repository holds one whose kind,
\* group, namespace and name equal those of the queried object, and the object
\* returned is such a one; an object that differs from the query in its group
\* is never returned for it.
FindIdentity ==
    last.kind = "find" =>
        /\ Present(last.written) = (\E o \in RepoObjects : SameIdentity(o, cluster[1]))
        /\ Present(last.written) => SameIdentity(last.written[1], cluster[1])

\* C27 for the repositories whose objects are all of the group of the query
FindIdentityOneGroup ==
    (last.kind = "find" /\ \A o \in RepoObjects : o.group = cluster[1].group) =>
        /\ Present(last.written) = (\E o \in RepoObjects : SameIdentity(o, cluster[1]))
        /\ Present(last.written) => SameIdentity(last.written[1], cluster[1])

-----------------------------------------------------------------------------
(* Properties of the controller at work.                                   *)

\* the manifest of the object at the tip of the remote branch
RemoteManifest ==
    LET file == RemoteTree(repo)[PathFor(Deployment)]
    IN  IF file = NoFile THEN <<>> ELSE <<Objects(file)[1]>>

\* the fields a rule is about: those under one of its filters, every field
\* when it has none; the resource version is the server's
InScope(rule) ==
    {p \in FieldPaths \ {RvPath} :
        \/ Len(rule.filters) = 0
        \/ \E i \in DOMAIN rule.filters : IsUnder(p, rule.filters[i])}

\* the two objects are equal on the fields the rule is about
EqualInScope(rule, a, b) == \A p \in InScope(rule) : Field(a, p) = Field(b, p)

\* another clone has just pushed a manifest of the object, the rule of the
\* list is a to-cluster rule, and nobody else will write again
PushedUnderToCluster ==
    /\ last.kind = "push"
    /\ config[1].syncTo = Kubernetes
    /\ Present(RemoteManifest)
    /\ extWrites = MaxExtWrites

ClusterFollowsRemote ==
    /\ Present(cluster)
    /\ Present(RemoteManifest)
    /\ EqualInScope(config[1], cluster[1], RemoteManifest[1])

\* C28 Liveness of repository-to-cluster propagation: once another clone has
\* pushed a changed manifest of an object under a to-cluster rule and no
\* external write follows, the ticker and the worker being scheduled fairly,
\* the cluster object eventually equals the manifest of the remote branch on
\* the fields the rule is about.
PushPropagates == PushedUnderToCluster ~> ClusterFollowsRemote

\* the push of another clone has reached the cluster: the worker has just
\* written the cluster object, which was not what the manifest pushed says
PushPropagatesWitness ==
    /\ last.kind = "work" /\ last.err = ""
    /\ last.writes \cap ClusterWriteNames # {}
    /\ config[1].syncTo = Kubernetes
    /\ repo.commits[repo.remote].by = "ext"
    /\ extWrites = MaxExtWrites
    /\ ClusterFollowsRemote

\* the reconcile step just served returned the conflict error of a push that
\* was refused as non-fast-forward
PushRejected == last.kind = "work" /\ last.err = "non-fast-forward"

\* what the cluster holds is what the remote branch holds, on the fields the
\* rule is about
RemoteFollowsCluster ==
    IF Present(cluster)
    THEN /\ Present(RemoteManifest)
         /\ EqualInScope(config[1], cluster[1], RemoteManifest[1])
    ELSE ~Present(RemoteManifest)

\* a reconcile step under the to-repository rule has just returned success and
\* the remote branch holds the change
RetrySucceeded ==
    /\ last.kind = "work" /\ last.err = ""
    /\ config[1].syncTo = Git
    /\ RemoteFollowsCluster

\* the tip of the remote branch is not in the history of the local branch:
\* a push of the local branch is refused
Diverged == ~IsAncestor(repo, repo.remote, repo.head)

\* C29 Conflict recovery liveness: a reconcile step whose push was refused as
\* non-fast-forward returns an error and is served again, and once the other
\* clones stop pushing, the worker and the ticker being scheduled fairly, a
\* reconcile step under the to-repository rule returns success with the change
\* in the remote branch; the local branch does not stay diverged from the
\* remote branch for ever.
ConflictRecovery ==
    /\ [](PushRejected => pc["w1"] = "queued")
    /\ PushRejected ~> RetrySucceeded
    /\ []<>(~Diverged)

\* C29 as long as no call has found the network down
ConflictRecoveryNetworkUp ==
    /\ [](PushRejected => pc["w1"] = "queued")
    /\ PushRejected ~> (RetrySucceeded \/ calls # <<>>)
    /\ []<>(~Diverged \/ calls # <<>>)

\* another clone has just pushed the removal of the manifest of the object,
\* the rule of the list is a to-cluster rule, the cluster holds the object, and
\* nobody else will write again
RemovalPushedUnderToCluster ==
    /\ last.kind = "push"
    /\ config[1].syncTo = Kubernetes
    /\ ~Present(RemoteManifest)
    /\ Present(cluster)
    /\ extWrites = MaxExtWrites

\* C39 Liveness of repository-side deletion: once another clone has pushed the
\* removal of the manifest of an object under a to-cluster rule and the
\* cluster object is left untouched, the ticker and the worker being
\* scheduled fairly, the identity is eventually reconciled against the
\* worktree without the manifest and the cluster object is eventually deleted.
RemovalPropagates == RemovalPushedUnderToCluster ~> ~Present(cluster)

-----------------------------------------------------------------------------
(* Properties of File.                                                     *)

\* the sequence of objects of the File
FileSequence == call["w1"].objects

\* no two objects of the sequence have the same kind, group, namespace and name
UniqueIdentities(objects) ==
    \A i \in DOMAIN objects : \A j \in DOMAIN objects :
        SameIdentity(objects[i], objects[j]) => i = j

HoldsIdentityOf(objects, obj) ==
    \E i \in DOMAIN objects : SameIdentity(objects[i], obj)

\* what the claim says of a call of Add
AddedAsClaimed ==
    last'.kind = "add" =>
        FileSequence' = IF HoldsIdentityOf(FileSequence, last'.written[1])
                        THEN FileSequence
                        ELSE Append(FileSequence, last'.written[1])

\* C31 ManifestFile identity uniqueness: after any sequence of Load, Add and
\* Remove no two objects of the sequence of a File share an identity; Add of
\* an object whose identity is present leaves the sequence as it is, and Add
\* of a new identity appends it at the end and leaves the others in place.
FileIdentityUniqueness ==
    [][UniqueIdentities(FileSequence') /\ AddedAsClaimed]_vars

\* the file on disk holds no two documents of one name, namespace and kind
DiskUnique ==
    \A i \in DOMAIN Objects(repo.fs[AllPath]) :
        \A j \in DOMAIN Objects(repo.fs[AllPath]) :
            ObjectMatches(Objects(repo.fs[AllPath])[i], Objects(repo.fs[AllPath])[j])
                => i = j

\* C31 for a File loaded at most once from a file without such documents and
\* for Add read with the identity of Object.Matches
FileUniquenessLoadedOnce ==
    [][(DiskUnique /\ (last'.kind = "load" => FileSequence = <<>>)) =>
         /\ UniqueIdentities(FileSequence) => UniqueIdentities(FileSequence')
         /\ last'.kind = "add" =>
               FileSequence' =
                   IF \E i \in DOMAIN FileSequence :
                          ObjectMatches(FileSequence[i], last'.written[1])
                   THEN FileSequence
                   ELSE Append(FileSequence, last'.written[1])]_vars

-----------------------------------------------------------------------------
(* Properties of the codec.                                                *)

\* the object the first Load returned and the object the second Load returned
FirstDecoded == last.written[1]
SecondDecoded == call["w2"].objects[1]

RoundTripDone == pc["w1"] = "reloaded"

\* C32 Codec round-trip, as the specification states it: for every manifest,
\* one that carries server-populated fields included, the object decoded from
\* the manifest written equals the object first decoded.
CodecRoundTrip == RoundTripDone => SecondDecoded = FirstDecoded

\* C32, amended: the object decoded from the manifest written has its resource
\* version, uid, self link, generation and creation timestamp cleared and
\* keeps the name, namespace, kind, group, labels and other annotations of the
\* object first decoded; it equals the object first decoded when the manifest
\* carries none of the five fields, no status and no last-applied annotation.
CodecRoundTripCleared ==
    RoundTripDone =>
        /\ ServerFieldsCleared(SecondDecoded)
        /\ Preserved(SecondDecoded, FirstDecoded)
        /\ SecondDecoded.group = FirstDecoded.group
        /\ SecondDecoded.labels = FirstDecoded.labels
        /\ (/\ ServerFieldsCleared(FirstDecoded)
            /\ FirstDecoded.status = None
            /\ FirstDecoded.annotations[LastApplied] = None)
           => SecondDecoded = FirstDecoded

\* a manifest with every server-populated field, a status and an annotation
\* has made the trip
CodecRoundTripWitness ==
    /\ RoundTripDone
    /\ FirstDecoded.rv = "1" /\ FirstDecoded.uid = "u"
    /\ FirstDecoded.generation = 1 /\ FirstDecoded.creationTimestamp = "t"
    /\ FirstDecoded.annotations["my"] = "x"
    /\ SecondDecoded.annotations["my"] = "x" /\ SecondDecoded.uid = ""

-----------------------------------------------------------------------------
(* Properties of PatchObject.                                              *)

PatchOriginal == cluster[1]
PatchCurrent == OnlyManifest(repo)[1]
Patched == last.written[1]

\* C33 Filtered-apply resource version, as the specification states it: the
\* object PatchObject returns carries the resource version of `current`,
\* whatever the filters keep or drop.
PatchedVersionOfCurrent ==
    last.kind = "patch" => Patched.rv = PatchCurrent.rv

\* C33, amended: the object PatchObject returns carries the resource version
\* of `original`, the object read from the cluster, whatever the filters keep
\* or drop.
PatchedVersionOfOriginal ==
    last.kind = "patch" => Patched.rv = PatchOriginal.rv

\* the two resource versions differ, the operation on the resource version is
\* among those kept, and the object returned has the version of original
PatchedVersionWitness ==
    /\ last.kind = "patch"
    /\ PatchOriginal.rv = "1" /\ PatchCurrent.rv = ""
    /\ \E o \in last.patch : o.path = RvPath
    /\ Patched.rv = "1"
    /\ Patched.labels = PatchCurrent.labels
    /\ PatchCurrent.labels # PatchOriginal.labels

-----------------------------------------------------------------------------
(* Properties of Upsert on files of several objects.                       *)

\* the places of the worktree, in the order of the walk, where an object of the
\* identity of obj stands
PlacesOf(fs, obj) ==
    {<<n, i>> \in (DOMAIN WalkOrder) \X (1..2) :
        /\ i \in DOMAIN Objects(fs[WalkOrder[n]])
        /\ SameIdentity(Objects(fs[WalkOrder[n]])[i], obj)}

\* the first of them
FirstPlace(fs, obj) ==
    CHOOSE pl \in PlacesOf(fs, obj) :
        \A q \in PlacesOf(fs, obj) :
            pl[1] < q[1] \/ (pl[1] = q[1] /\ pl[2] <= q[2])

\* the step just taken is an Upsert of the object
Upserted == last'.kind = "upsert"
UpsertedObject == last'.written[1]

\* the file at the place is rewritten with the object at the place; same(a, b)
\* says what it is for another object of the file to be unchanged
RewrittenAt(pl, same(_, _)) ==
    LET path == WalkOrder[pl[1]]
        before == Objects(repo.fs[path])
        after == Objects(repo'.fs[path])
    IN  /\ Len(after) = Len(before)
        /\ SameIdentity(after[pl[2]], UpsertedObject)
        /\ after[pl[2]].labels = UpsertedObject.labels
        /\ \A j \in DOMAIN before : j # pl[2] => same(after[j], before[j])
        /\ \A q \in Paths : q # path => repo'.fs[q] = repo.fs[q]

\* C35 on every worktree, two objects that differ in their group only included
UpsertInPlace ==
    [][(Upserted /\ PlacesOf(repo.fs, UpsertedObject) # {}) =>
         RewrittenAt(FirstPlace(repo.fs, UpsertedObject),
                     LAMBDA a, b : a = b)]_vars

\* no object of the worktree has the name, namespace and kind of another
\* without having its group
NoGroupTwins(fs) ==
    \A p \in Paths, q \in Paths :
        \A i \in DOMAIN Objects(fs[p]), j \in DOMAIN Objects(fs[q]) :
            ObjectMatches(Objects(fs[p])[i], Objects(fs[q])[j])
                => SameIdentity(Objects(fs[p])[i], Objects(fs[q])[j])

\* C35 Upsert in place, on worktrees where name, namespace and kind decide the
\* identity: an Upsert of an identity the repository holds rewrites that object
\* in its file at its position, and leaves every other object of that file and
\* every other file of the worktree as it was.
UpsertInPlaceOneGroup ==
    [][(/\ Upserted /\ PlacesOf(repo.fs, UpsertedObject) # {}
        /\ NoGroupTwins(repo.fs)) =>
         RewrittenAt(FirstPlace(repo.fs, UpsertedObject),
                     LAMBDA a, b : a = b)]_vars

\* C35 with the other objects of the file unchanged but for the metadata of
\* the server, on worktrees where name, namespace and kind decide the identity
UpsertInPlaceMarshalled ==
    [][(/\ Upserted /\ PlacesOf(repo.fs, UpsertedObject) # {}
        /\ NoGroupTwins(repo.fs)) =>
         RewrittenAt(FirstPlace(repo.fs, UpsertedObject),
                     LAMBDA a, b : a = MarshalObject(b))]_vars

\* the objects of the worktree
WorktreeObjects(fs) ==
    UNION {SeqToSet(Objects(fs[p])) : p \in Paths}

\* C36 for every Upsert of an identity the worktree does not hold, one whose
\* name, namespace and kind another object has included
UpsertNewKeepsOthers ==
    [][(Upserted /\ PlacesOf(repo.fs, UpsertedObject) = {}) =>
         \A o \in WorktreeObjects(repo.fs) :
             \E n \in WorktreeObjects(repo'.fs) : SameIdentity(n, o)]_vars

\* C36 Upsert of a new identity: an Upsert of an object that no object of the
\* repository matches removes the object of no other identity: every identity
\* the worktree held before the Upsert it still holds after it, a manifest file
\* already at the synthesized path and holding other identities included.
UpsertNotFoundKeepsOthers ==
    [][(Upserted /\ ~Present(FindObjectInRepo(repo.fs, UpsertedObject))) =>
         \A o \in WorktreeObjects(repo.fs) :
             \E n \in WorktreeObjects(repo'.fs) : SameIdentity(n, o)]_vars

\* C36 for an Upsert that finds no file at the synthesized path
UpsertNewPathKeepsOthers ==
    [][(/\ Upserted /\ ~Present(FindObjectInRepo(repo.fs, UpsertedObject))
        /\ repo.fs[PathFor(UpsertedObject)] = NoFile) =>
         \A o \in WorktreeObjects(repo.fs) :
             \E n \in WorktreeObjects(repo'.fs) : n = MarshalObject(o) \/ n = o]_vars

-----------------------------------------------------------------------------
(* Properties of the Repo under concurrent callers.                        *)

\* the commits the workers of this Repo made
ControllerCommits == {c \in DOMAIN repo.commits : repo.commits[c].by \in Workers}

\* the calls that have made commit c: returned ones and those still running
MakersOf(c) ==
    {<<"returned", n>> : n \in {m \in DOMAIN calls : calls[m].commit = c}}
        \cup {<<"running", w>> : w \in {v \in Workers : InSection(v) /\ call[v].commit = c}}

PathOfMaker(m) == IF m[1] = "returned" THEN calls[m[2]].path ELSE call[m[2]].path

\* C5 Commit atomicity: the locked sections of two calls never overlap, and
\* every commit the controller made was made by exactly one call of AddResource
\* or RemoveResource and changes the one file that call wrote, nothing more.
CommitAtomicity ==
    /\ \A v, w \in Workers : v # w => ~(InSection(v) /\ InSection(w))
    /\ \A c \in ControllerCommits :
         /\ Cardinality(MakersOf(c)) = 1
         /\ \A m \in MakersOf(c) : Changed(repo, c) = {PathOfMaker(m)}

\* one worker has committed and is about to push while the other waits for the lock
CommitAtomicityWitness ==
    /\ pc["w2"] = "push" /\ call["w2"].inner /\ call["w2"].commit # 0
    /\ pc["w1"] = "lock"
    /\ lock = "w2"

\* C6 Lock coverage: the fetch and the reset of the periodic Pull, a worker's
\* Find, and a Push or Pull made outside AddResource and RemoveResource take a
\* step only while no worker is inside its locked section.
LockCoverage ==
    [][(\/ puller' # puller
        \/ \E w \in Workers : pc[w] = "idle" /\ pc'[w] = "lock"
        \/ \E w \in Workers : /\ pc[w] \in {"push", "fetch", "reset"}
                              /\ ~call[w].inner
                              /\ pc'[w] # pc[w]) =>
         \A v \in Workers : ~InSection(v)]_vars

\* C7 Push conflict handling: when a Push whose push was refused as not
\* fast-forward returns, it returns the conflict error, has made no commit and
\* pushed nothing since, and the local branch and worktree are at a commit of
\* the remote branch that holds the tip that refused the push and does not hold
\* the refused commit.
PushConflictHandling ==
    [][\A w \in Workers :
         (pc[w] \in {"fetch", "reset"} /\ pc'[w] \notin {"fetch", "reset"}) =>
            /\ call'[w].err = "non-fast-forward"
            /\ repo'.commits = repo.commits
            /\ repo'.remote = repo.remote
            /\ IsAncestor(repo', call[w].tip, repo'.head)
            /\ IsAncestor(repo', repo'.head, repo'.remote)
            /\ ~IsAncestor(repo', call[w].rejected, repo'.head)
            /\ repo'.fs = TreeOf(repo', repo'.head)]_vars

\* C8 Remote history: the remote branch holds the commit of a returned call if
\* and only if the call returned success.
RemoteHistory ==
    \A n \in DOMAIN calls :
        calls[n].commit # 0 =>
            (IsAncestor(repo, calls[n].commit, repo.remote) <=> calls[n].err = "")

\* C9 File atomicity on success, as the specification states it: every call
\* that returned success has made a commit, and the commit changes exactly the
\* file of the target.
FileAtomicityOnSuccess ==
    \A n \in DOMAIN calls :
        calls[n].err = "" =>
            /\ calls[n].commit # 0
            /\ Changed(repo, calls[n].commit) = {calls[n].path}

\* the file of commit c at path p holds the object as AddResource marshals it
HoldsObject(c, p, obj) ==
    \E i \in DOMAIN Objects(TreeOf(repo, c)[p]) :
        Objects(TreeOf(repo, c)[p])[i] = MarshalObject(obj)

\* the file of commit c at path p holds an object of the identity of obj
HoldsIdentity(c, p, obj) ==
    \E i \in DOMAIN Objects(TreeOf(repo, c)[p]) :
        ObjectMatches(Objects(TreeOf(repo, c)[p])[i], obj)

\* C9 as the code has it: a call that returned success has made at most one
\* commit (none when the worktree was clean after staging); a commit it made
\* changes exactly one file, the file holding the target: after an upsert the
\* file holds the object, after a delete it holds the identity no more while
\* the parent commit's file did.
FileAtomicityOfCommits ==
    /\ \A n \in DOMAIN calls :
         (calls[n].err = "" /\ calls[n].commit # 0) =>
            LET c == calls[n].commit
                p == calls[n].path
                obj == calls[n].obj[1]
            IN  /\ Changed(repo, c) = {p}
                /\ calls[n].op = "upsert" => HoldsObject(c, p, obj)
                /\ calls[n].op = "delete" =>
                     /\ ~HoldsIdentity(c, p, obj)
                     /\ HoldsIdentity(repo.commits[c].parent, p, obj)
    /\ \A m, n \in DOMAIN calls :
         (calls[m].commit # 0 /\ calls[m].commit = calls[n].commit) => m = n

\* two calls have returned success, one with a commit and one without
FileAtomicityWitness ==
    \E m, n \in DOMAIN calls :
        /\ calls[m].err = "" /\ calls[m].commit # 0
        /\ calls[n].err = "" /\ calls[n].commit = 0

\* C10 State unchanged on failure: the worktree a call that returned an error
\* leaves is the worktree it found.
UnchangedOnFailure ==
    \A n \in DOMAIN calls : calls[n].err # "" => calls[n].end = calls[n].start

\* C30 Commit-and-push is one logical step: every call of AddResource or
\* RemoveResource that made a commit and returned success has its commit in
\* the history of the remote branch, whatever the other workers and the
\* periodic Pull did meanwhile.
CommitAndPushOneStep ==
    \A n \in DOMAIN calls :
        (calls[n].err = "" /\ calls[n].commit # 0) =>
            IsAncestor(repo, calls[n].commit, repo.remote)

\* worker w has just rewritten the file of its RemoveResource
DeleteSaved(w) ==
    pc[w] = "save" /\ pc'[w] = "add" /\ call[w].op = "delete"

\* the objects as File.Dump writes them
Marshalled(objects) == [i \in DOMAIN objects |-> MarshalObject(objects[i])]

\* C37 Delete under interleaving: what Find returned is still current when
\* RemoveResource rewrites the file: the file written holds the objects the
\* worktree held in it just before, in their order, less the objects of the
\* identity deleted, so that no change another worker's Upsert or a Pull made
\* to another object of the file since the Find is reverted or dropped.
DeleteOnCurrentFile ==
    [][\A w \in Workers :
         DeleteSaved(w) =>
            Objects(repo'.fs[call[w].path]) =
                Marshalled(FileRemoveResource(Objects(repo.fs[call[w].path]),
                                              call[w].obj[1]))]_vars

\* C37 for a Delete whose file is, when the lock is taken, as Find saw it
DeleteOnFileAsFound ==
    [][\A w \in Workers :
         (/\ DeleteSaved(w)
          /\ Objects(repo.fs[call[w].path]) = call[w].found[1].objects) =>
            Objects(repo'.fs[call[w].path]) =
                Marshalled(FileRemoveResource(Objects(repo.fs[call[w].path]),
                                              call[w].obj[1]))]_vars

\* C37 for a Delete beside which the other worker has done nothing but Upsert
DeleteBesideUpsert ==
    [][\A w \in Workers :
         (/\ DeleteSaved(w)
          /\ \A v \in Workers \ {w} : call[v].op = "upsert" /\ pc[v] = "idle"
          /\ puller = "idle" /\ extWrites = 0) =>
            Objects(repo'.fs[call[w].path]) =
                Marshalled(FileRemoveResource(Objects(repo.fs[call[w].path]),
                                              call[w].obj[1]))]_vars

-----------------------------------------------------------------------------
(* Properties of the mutex of the Repo.                                    *)

\* no call waits for the mutex it holds itself
NoReentrantAcquire == \A w \in Workers : pc[w] = "lock" => lock # w

\* C38 Deadlock freedom of the mutex: on a repository with a remote URL every
\* call of AddResource, RemoveResource, Push, Pull and FindObjectInRepo
\* returns, having released the mutex if it took it, and no worker waits
\* forever for it.
MutexDeadlockFree ==
    \A w \in Workers :
        [](Busy(w) /\ repo.repoDir # "" => <>(~Busy(w)))

\* C38 for the repository without a remote URL
MutexDeadlockFreeLocal ==
    \A w \in Workers :
        [](Busy(w) /\ repo.repoDir = "" => <>(~Busy(w)))

====
